---- MODULE Spec2Model ----
(***************************************************************************)
(* Model of the greentic-messaging-tester harness (requirement validator,  *)
(* send / ingress / listen command pipelines, transport call history), of  *)
(* the HTTP mock response queue and of the provider-tests TestHostState.   *)
(*                                                                         *)
(* Specifications:                                                         *)
(*   SpecValidate  Requirements::validate as a pure function of (R, V)     *)
(*   Spec          one run of the send / ingress / listen command          *)
(*   SpecMock      the mock response queue (queue / clear / transport)     *)
(*   SpecHost      TestHostState's transport, secrets and state store      *)
(*   SpecValues    Values::http_mode and Values::secret_bytes              *)
(*   SpecVerify    verify_webex_signature and decode_hex                   *)
(*   SpecListen    the live listener and its workers                       *)
(*   SpecWebex     the webex module's invoke, render_plan, send_payload,   *)
(*                 ingest_http                                             *)
(*   SpecWire      the two wirings of the transport import                 *)
(*   SpecExit      the process exit code of every run result               *)
(*   SpecRunOrListen  a command run or the listener's server               *)
(*   SpecListenFair   SpecListen with every ready task polled              *)
(*   SpecHttpIn    listen --http-in: the synthesized payload               *)
(*   SpecMockConc  concurrent callers of one mock controller               *)
(*   SpecOnce      ensure_components_built from several threads            *)
(*   SpecIsolation several harness runs, each with its own history         *)
(*   SpecCommands  Spec and the webhook command                            *)
(*   SpecSigBytes  the bytes the listener signs for the signature check    *)
(*   SpecWatermark ConversationState::bump_watermark on u64                *)
(*   SpecJwt       issue_token and verify_token of the Direct Line tokens  *)
(*   SpecRoute     the listener router and the request it hands on         *)
(***************************************************************************)
EXTENDS Integers, Sequences, FiniteSets, TLC

VARIABLES
    pc,            \* position of the running command
    cmd,           \* "send" | "ingress" | "listen" | "none"
    requirements,  \* the loaded Requirements
    values,        \* the loaded Values
    report,        \* the ValidationReport of the run
    err,           \* the CliError the command returned, or NoError
    exit_code,     \* the process exit code, or -1 while running
    harness,       \* TRUE once WasmHarness::new has returned Ok
    history,       \* HttpHistory: [created, calls]; NoHistory before new_history()
    issued,        \* ghost: <<request, result>> as seen by the guest, in issuance order
    invoke_base,   \* ghost: Len(issued) when the running invocation started
    ops,           \* ghost: the pipeline steps started so far, in order
    plan_value,    \* decoded render_plan output
    encode_result, \* result of encode_from_render_plan
    send_result,   \* decoded SendPayloadResultV1
    output,        \* what the command printed as its final JSON, or NoValue
    logged,        \* what log_http_history printed, or NoValue
    guest_output,  \* the bytes the last harness.invoke returned, or NoValue
    queue,         \* mock controller: pending responses
    queued_log,    \* ghost: every response ever queued, in queueing order
    gone,          \* ghost: how many entries of queued_log are consumed or cleared
    served,        \* responses handed to transport calls, in call order
    expected,      \* ghost: what FIFO order prescribes for each call
    http_handler,  \* TestHostState.http_handler: "unset", "default" or "custom"
    last_request,  \* TestHostState.last_request, NoValue for None
    guest_results, \* ghost: <<request, result>> the guest received from TestHostState.send
    secrets,       \* TestHostState.secrets: key -> bytes
    cap_log,       \* ghost: secrets-store and state-store calls with their results
    listener,      \* ListenerState of the live listener, and whether it is serving
    conns,         \* the listener's requests: position, request, response
    fn_in,         \* input of the function under study
    fn_out,        \* its result, NoValue before it ran
    fn_calls,      \* transport calls a provider module operation made
    threads,       \* concurrent callers: thread -> its position and locals
    mock_lock,     \* holder of the mock controller's lock, 0 when free
    once,          \* BUILD_COMPONENTS_ONCE and what its closure has done
    runs,          \* the runs and listener requests of one process, each with the
                   \* harness and the history it holds
    histories,     \* the call histories allocated so far, by identity
    fixture        \* the Values as Values::load returned them, NoValue before

vars == <<pc, cmd, requirements, values, report, err, exit_code, harness, history,
          issued, invoke_base, ops, plan_value, encode_result, send_result, output,
          logged, guest_output, queue, queued_log, gone, served, expected, http_handler,
          last_request, guest_results, secrets, cap_log, listener, conns, fn_in,
          fn_out, fn_calls, threads, mock_lock, once, runs, histories,
          fixture>>

runVars == <<cmd, err, exit_code, harness, history, issued, invoke_base, ops,
             plan_value, encode_result, send_result, output, logged, guest_output>>
mockVars == <<queue, queued_log, gone, served, expected>>
hostVars == <<http_handler, last_request, guest_results, secrets, cap_log>>
listenVars == <<listener, conns>>
fnVars == <<fn_in, fn_out, fn_calls>>
procVars == <<threads, mock_lock, once, runs, histories>>
concVars == <<procVars, fixture>>
gateVars == <<pc, requirements, values, report>>

(***************************************************************************)
(* Bounds                                                                  *)
(***************************************************************************)
MaxReq == 2        \* longest required-key list drawn for SpecValidate
MaxCalls == 3      \* transport calls a module issues in one run
MaxQueued == 3     \* responses queued over one mock-controller lifetime
MaxMockCalls == 3  \* transport calls served by the mock controller
MaxSends == 3      \* TestHostState.send calls
MaxHostCalls == 3  \* capability calls of all kinds made on one TestHostState
MaxExits == 2      \* process exits observed in one behaviour
MaxHeaderLen == 3  \* characters of a --header argument
MaxHeaderArgs == 2 \* --header arguments of one listen command
MaxOnceCalls == 2  \* calls of ensure_components_built by one thread
MaxThreads == 3    \* threads that call concurrently

None == "None"
NoError == [kind |-> "NoError", msg |-> ""]
\* a value not yet produced, and bytes the host cannot decode
NoValue == [none |-> TRUE]
Garbage == [garbage |-> TRUE]
NoHistory == [created |-> FALSE, calls |-> <<>>]
Threads == 1..MaxThreads
IdleThread == [pc |-> "idle", request |-> 0, response |-> NoValue]
OnceIncomplete == [state |-> "incomplete", starts |-> 0, finished |-> 0]
NoListener == [running |-> FALSE, provider |-> "", signature_secret |-> <<>>]

Range(s) == {s[i] : i \in 1..Len(s)}

RECURSIVE SeqsUpTo(_, _)
SeqsUpTo(S, n) ==
    IF n = 0 THEN {<<>>}
    ELSE LET shorter == SeqsUpTo(S, n - 1)
         IN shorter \cup {Append(s, x) : s \in {t \in shorter : Len(t) = n - 1}, x \in S}

(***************************************************************************)
(* Requirements, Values, ValidationReport (requirements.rs, values.rs)     *)
(***************************************************************************)
Keys == {"api_base", "token"}
\* serde_json::Map iterates its keys in sorted order
KeyOrder == <<"api_base", "public_base_url", "token">>

JsonMaps(K) == UNION {[S -> {"v"}] : S \in SUBSET K}

contains_key(map, key) == key \in DOMAIN map

\* Vec<FieldRequirement> is modelled by the sequence of its keys (duplicates allowed)
RequirementsOver(K, n) ==
    [config : SeqsUpTo(K, n), secrets : SeqsUpTo(K, n), to_shape : JsonMaps(K)]

ValuesOver(K) ==
    [config : JsonMaps(K), secrets : JsonMaps(K), to : JsonMaps(K), http : {<<>>}]

EmptyReport == [missing_config |-> <<>>, missing_secrets |-> <<>>, missing_to |-> <<>>]
EmptyRequirements == [config |-> <<>>, secrets |-> <<>>, to_shape |-> <<>>]
EmptyValues == [config |-> <<>>, secrets |-> <<>>, to |-> <<>>, http |-> <<>>]

\* an emptiness test that looks at missing_config alone
is_empty_config_only(r) == r.missing_config = <<>>

is_empty(r) ==
    /\ r.missing_config = <<>>
    /\ r.missing_secrets = <<>>
    /\ r.missing_to = <<>>

\* the body of one `for field in required { if !map.contains_key(key) { push } }`
RECURSIVE PushMissing(_, _, _)
PushMissing(required, map, acc) ==
    IF required = <<>> THEN acc
    ELSE PushMissing(Tail(required), map,
                     IF ~contains_key(map, Head(required))
                     THEN Append(acc, Head(required)) ELSE acc)

\* a loop that stops at the first miss
RECURSIVE PushFirstMissing(_, _)
PushFirstMissing(required, map) ==
    IF required = <<>> THEN <<>>
    ELSE IF ~contains_key(map, Head(required)) THEN <<Head(required)>>
    ELSE PushFirstMissing(Tail(required), map)

missing_first_only(required, map) == PushFirstMissing(required, map)

missing_keys(required, map) == PushMissing(required, map, <<>>)

\* self.to.shape.keys()
shape_keys(shape) == SelectSeq(KeyOrder, LAMBDA k : k \in DOMAIN shape)

validate(reqs, vals) ==
    [missing_config  |-> missing_keys(reqs.config, vals.config),
     missing_secrets |-> missing_keys(reqs.secrets, vals.secrets),
     missing_to      |-> missing_keys(shape_keys(reqs.to_shape), vals.to)]

(***************************************************************************)
(* CliError and its exit codes (main.rs)                                   *)
(***************************************************************************)
CliError(kind, msg) == [kind |-> kind, msg |-> msg]

\* an exit code that does not tell the errors apart
exit_code_flat(kind) == 1

\* CliError::exit_code
ExitCode(kind) ==
    CASE kind = "RequirementsMissing" -> 2
      [] kind = "RequirementsParse"   -> 2
      [] kind = "Validation"          -> 2
      [] kind = "ValuesLoad"          -> 1
      [] kind = "HttpInput"           -> 1
      [] kind = "HttpOutput"          -> 6
      [] kind = "CardFile"            -> 1
      [] kind = "CardParse"           -> 1
      [] kind = "WasmLoad"            -> 3
      [] kind = "ProviderOp"          -> 4
      [] kind = "Webhook"             -> 8
      [] kind = "WebhookUnsupported"  -> 9
      [] kind = "Network"             -> 5
      [] kind = "Listen"              -> 7

\* fn main: Err(err) => err.exit_code()
Fail(e) ==
    /\ pc' = "failed"
    /\ err' = e
    /\ exit_code' = ExitCode(e.kind)

\* fn main: Ok(_) => 0
Succeed ==
    /\ pc' = "done"
    /\ err' = NoError
    /\ exit_code' = 0

(***************************************************************************)
(* Values helpers (values.rs, main.rs)                                     *)
(***************************************************************************)
\* Option<T>: None is the empty sequence, Some(x) the one-element sequence <<x>>
Some(x) == <<x>>
unwrap_or(opt, default) == IF opt = <<>> THEN default ELSE opt[1]

\* a String is the sequence of its characters; u8::to_ascii_lowercase per character
ascii_lower(c) ==
    CASE c = "R" -> "r"
      [] c = "E" -> "e"
      [] c = "A" -> "a"
      [] c = "L" -> "l"
      [] c = "M" -> "m"
      [] OTHER   -> c

to_ascii_lowercase(s) == [i \in 1..Len(s) |-> ascii_lower(s[i])]

\* a selector that falls back to the real transport when http is absent
http_mode_default_real(vals) ==
    IF to_ascii_lowercase(unwrap_or(vals.http, <<"r", "e", "a", "l">>))
          = <<"r", "e", "a", "l">>
    THEN "Real" ELSE "Mock"

http_mode(vals) ==
    IF to_ascii_lowercase(unwrap_or(vals.http, <<"m", "o", "c", "k">>))
          = <<"r", "e", "a", "l">>
    THEN "Real" ELSE "Mock"

\* serde_json::Value, as far as the secrets map needs it
JString(chars) == [t |-> "string", s |-> chars]
JNumber(n) == [t |-> "number", n |-> n]
JBool(b) == [t |-> "bool", b |-> b]
JNull == [t |-> "null"]
JArray(items) == [t |-> "array", items |-> items]

\* decimal digits of a natural number, most significant first
RECURSIVE Digits(_)
Digits(n) ==
    LET d == <<"0", "1", "2", "3", "4", "5", "6", "7", "8", "9">>[(n % 10) + 1]
    IN IF n < 10 THEN <<d>> ELSE Append(Digits(n \div 10), d)

\* serde_json::to_string's escaping of one character of a string
json_escape(c) == IF c = "\"" THEN <<"\\", "\"">> ELSE <<c>>

RECURSIVE json_escaped(_)
json_escaped(chars) ==
    IF chars = <<>> THEN <<>>
    ELSE json_escape(Head(chars)) \o json_escaped(Tail(chars))

RECURSIVE json_to_string(_)
RECURSIVE json_join(_)
json_join(items) ==
    IF items = <<>> THEN <<>>
    ELSE IF Len(items) = 1 THEN json_to_string(items[1])
    ELSE json_to_string(Head(items)) \o <<",">> \o json_join(Tail(items))

json_to_string(v) ==
    CASE v.t = "string" -> <<"\"">> \o json_escaped(v.s) \o <<"\"">>
      [] v.t = "number" -> Digits(v.n)
      [] v.t = "bool"   -> IF v.b THEN <<"t", "r", "u", "e">>
                                  ELSE <<"f", "a", "l", "s", "e">>
      [] v.t = "null"   -> <<"n", "u", "l", "l">>
      [] v.t = "array"  -> <<"[">> \o json_join(v.items) \o <<"]">>

\* a conversion that serialises every value, strings included
secret_value_json(v) == json_to_string(v)

\* secret_bytes, one entry: Value::String(s) => s.as_bytes(), other => to_string(other)
secret_value_bytes(v) == IF v.t = "string" THEN v.s ELSE json_to_string(v)

secret_bytes(vals) ==
    [k \in DOMAIN vals.secrets |-> secret_value_bytes(vals.secrets[k])]

\* a command that leaves the loaded values as they are
inject_nothing(vals, url) == vals

\* fn inject_public_base_url: values.config.insert("public_base_url", ..)
inject_public_base_url(vals, url) ==
    [vals EXCEPT !.config =
        [k \in DOMAIN vals.config \cup {"public_base_url"} |->
            IF k = "public_base_url" THEN url ELSE vals.config[k]]]

(***************************************************************************)
(* Inputs of one command run                                               *)
(***************************************************************************)
Commands == {"send", "ingress", "listen"}

PipelineReqs ==
    [config : {<<>>, <<"public_base_url">>, <<"api_base", "public_base_url">>},
     secrets : {<<"token">>},
     to_shape : {<<>>}]

PipelineVals ==
    [config : JsonMaps({"api_base"}), secrets : JsonMaps({"token"}),
     to : {<<>>}, http : {<<>>, <<<<"R", "e", "a", "l">>>>}]

Requests == {"GET /a", "POST /b"}

Response(status, body) == [kind |-> "response", status |-> status, body |-> body]
TransportError == [kind |-> "error", status |-> 0, body |-> "network"]

\* a default that is not the canned success
default_not_ok == Response(500, "{}")

\* fn default_http_handler: status 200, body {"status":"ok"}
default_http_handler == Response(200, "{\"status\":\"ok\"}")

\* what a real backend may answer
RealResults == {Response(200, "m1"), Response(500, "boom"), TransportError}

\* bytes a module returns from render_plan, by what the host can decode from them
\* (a failure carries the module's message in "error", as render_plan_error writes it)
RenderOutputs ==
    {Garbage}
    \cup {r \in [ok : {"true", "false", "absent", "nonbool"}, plan_json : BOOLEAN,
                 error : {None, "invalid render input"}] :
              (r.error # None) = (r.ok = "false")}

\* EncodeResult of encode_from_render_plan
EncodeResults == [ok : BOOLEAN, payload : BOOLEAN]

\* bytes a module returns from send_payload
SendOutputs ==
    {Garbage} \cup [ok : BOOLEAN, message : {None, "text required"}, retryable : BOOLEAN]

\* bytes a module returns from ingest_http
IngestOutputs == {Garbage} \cup [status : {200, 502}, events : {1}]

\* Result<Vec<u8>> of harness.invoke: an error that is a transport error, any other
\* error, or the module's bytes
InvokeErrors == {"http_client_error", "trap"}

(***************************************************************************)
(* Helpers of the command handlers (main.rs)                               *)
(***************************************************************************)
\* an ensure_ok that lets every output through
ensure_ok_never(value, op) == NoError

\* fn ensure_ok: an error only when "ok" is present, a boolean, and false
ensure_ok(value, op) ==
    IF value.ok = "false"
    THEN CliError("ProviderOp", op \o " reported failure")
    ELSE NoError

\* a decode failure reported as a fixture load error
decode_error_as_load(op) == CliError("ValuesLoad", "decode " \o op \o " output")

\* serde_json::from_slice(..).map_err(|err| CliError::ProviderOp(err.into()))
decode_error(op) == CliError("ProviderOp", "decode " \o op \o " output")

\* fn map_invoke_error
map_invoke_error(e) ==
    IF e = "http_client_error"
    THEN CliError("Network", "network error")
    ELSE CliError("ProviderOp", "invoke failed")

\* fn log_http_history: one line per call (request, response status)
LogLines(op, calls) ==
    [op |-> op,
     lines |-> [i \in 1..Len(calls) |->
                   [request |-> calls[i].request, status |-> calls[i].response.status]]]

log_http_history(op) == logged' = LogLines(op, history.calls)

\* a snapshot that loses the calls
http_calls_dropped(h) == <<>>

\* handle_send: history.lock().map(|guard| guard.clone()).unwrap_or_default()
http_calls_snapshot(h) == h

(***************************************************************************)
(* SpecValidate: validate applied to every (R, V) of the bounded sets      *)
(***************************************************************************)
InitIdle ==
    /\ pc = "start"
    /\ cmd = "none"
    /\ requirements = EmptyRequirements
    /\ values = EmptyValues
    /\ report = EmptyReport
    /\ err = NoError
    /\ exit_code = -1
    /\ harness = FALSE
    /\ history = NoHistory
    /\ issued = <<>>
    /\ invoke_base = 0
    /\ ops = <<>>
    /\ plan_value = NoValue
    /\ encode_result = NoValue
    /\ send_result = NoValue
    /\ output = NoValue
    /\ logged = NoValue
    /\ guest_output = NoValue
    /\ queue = <<>>
    /\ queued_log = <<>>
    /\ gone = 0
    /\ served = <<>>
    /\ expected = <<>>
    /\ http_handler = "unset"
    /\ last_request = NoValue
    /\ guest_results = <<>>
    /\ secrets = <<>>
    /\ cap_log = <<>>
    /\ listener = NoListener
    /\ conns = <<>>
    /\ fn_in = NoValue
    /\ fn_out = NoValue
    /\ fn_calls = <<>>
    /\ threads = [t \in Threads |-> IdleThread]
    /\ mock_lock = 0
    /\ once = OnceIncomplete
    /\ runs = <<>>
    /\ histories = <<>>
    /\ fixture = NoValue

VLoad ==
    /\ pc = "start"
    /\ \E r \in RequirementsOver(Keys, MaxReq), v \in ValuesOver(Keys) :
          /\ requirements' = r
          /\ values' = v
    /\ pc' = "loaded"
    /\ UNCHANGED <<concVars, report, runVars, mockVars, hostVars, listenVars,
                   fnVars>>

VValidate ==
    /\ pc = "loaded"
    /\ report' = validate(requirements, values)
    /\ pc' = "validated"
    /\ UNCHANGED <<concVars, requirements, values, runVars, mockVars, hostVars, listenVars,
                   fnVars>>

NextValidate == VLoad \/ VValidate

SpecValidate == InitIdle /\ [][NextValidate]_vars

\* C1: validate reports, per category, exactly the required keys that are not keys
\* of the corresponding Values map: every such key (not only the first) and no key
\* that is present.
C1_ValidateExact ==
    pc = "validated" =>
        /\ Range(report.missing_config)
             = Range(requirements.config) \ DOMAIN values.config
        /\ Range(report.missing_secrets)
             = Range(requirements.secrets) \ DOMAIN values.secrets
        /\ Range(report.missing_to)
             = DOMAIN requirements.to_shape \ DOMAIN values.to

\* two different config keys are missing, and a required secret is present
C1_Witness ==
    /\ pc = "validated"
    /\ Cardinality(Range(report.missing_config)) = 2
    /\ \E k \in Range(requirements.secrets) : k \in DOMAIN values.secrets
    /\ report.missing_to # <<>>

(***************************************************************************)
(* Spec: one run of the send, ingress or listen command (main.rs)          *)
(***************************************************************************)
GuestRunning == pc \in {"planning", "sending", "ingesting"}

\* handle_send / handle_ingress / handle_listen up to the validation gate:
\* Values::load, Requirements::load, (inject_public_base_url,) validate
LoadAndValidate ==
    /\ pc = "start"
    /\ \E c \in Commands :
          /\ cmd' = c
          /\ \/ /\ Fail(CliError("ValuesLoad", "values load failed"))
                /\ UNCHANGED <<requirements, values, report, fixture>>
             \/ \E v \in PipelineVals :
                   \/ /\ values' = v
                      /\ fixture' = v
                      /\ Fail(CliError("RequirementsMissing", "requirements missing"))
                      /\ UNCHANGED <<requirements, report>>
                   \/ \E r \in PipelineReqs :
                         LET checked == IF c = "send" THEN v
                                        ELSE inject_public_base_url(v, "https://example.test")
                             rep == validate(r, checked)
                         IN /\ values' = checked
                            /\ fixture' = v
                            /\ requirements' = r
                            /\ report' = rep
                            /\ IF is_empty(rep)
                               THEN pc' = "validated" /\ UNCHANGED <<err, exit_code>>
                               ELSE Fail(CliError("Validation", "validation failed"))
    /\ UNCHANGED <<procVars, guest_output, harness, history, issued, invoke_base, ops,
                   plan_value, encode_result, send_result, output, logged, mockVars,
                   hostVars, listenVars, fnVars>>

\* handle_send: the message arguments (--text / --card / --to) and the envelope
SendBuildMessage ==
    /\ pc = "validated"
    /\ cmd = "send"
    /\ \/ Fail(CliError("ProviderOp", "send requires --text or --card"))
       \/ Fail(CliError("CardFile", "card file failed"))
       \/ Fail(CliError("CardParse", "card parse failed"))
       \/ Fail(CliError("ProviderOp", "--to cannot be empty"))
       \/ pc' = "built" /\ UNCHANGED <<err, exit_code>>
    /\ UNCHANGED <<concVars, guest_output, cmd, requirements, values, report, harness,
                   history, issued,
                   invoke_base, ops, plan_value, encode_result, send_result, output,
                   logged, mockVars, hostVars, listenVars,
                   fnVars>>

\* a call history created before the module is loaded
history_before_new(loaded, before) == [created |-> TRUE, calls |-> <<>>]

\* WasmHarness::new(..).map_err(CliError::WasmLoad)?; let history = new_history();
history_after_new(loaded, before) ==
    IF loaded THEN [created |-> TRUE, calls |-> <<>>] ELSE before

\* WasmHarness::new(&provider) and new_history()
NewHarness ==
    /\ \/ pc = "built" /\ cmd = "send"
       \/ pc = "validated" /\ cmd = "ingress"
    /\ \/ /\ Fail(CliError("WasmLoad", "wasm load failure"))
          /\ harness' = FALSE
          /\ history' = history_after_new(FALSE, history)
       \/ /\ harness' = TRUE
          /\ history' = history_after_new(TRUE, history)
          /\ pc' = "idle"
          /\ UNCHANGED <<err, exit_code>>
    /\ UNCHANGED <<concVars, guest_output, cmd, requirements, values, report, issued,
                   invoke_base, ops,
                   plan_value, encode_result, send_result, output, logged, mockVars,
                   hostVars, listenVars,
                   fnVars>>

\* handle_send: harness.invoke("render_plan", ...) is entered
InvokeRenderPlan ==
    /\ pc = "idle"
    /\ cmd = "send"
    /\ ops' = Append(ops, "render_plan")
    /\ invoke_base' = Len(issued)
    /\ pc' = "planning"
    /\ UNCHANGED <<concVars, guest_output, cmd, requirements, values, report, err,
                   exit_code, harness, history,
                   issued, plan_value, encode_result, send_result, output, logged,
                   mockVars, hostVars, listenVars,
                   fnVars>>

\* the transport capability wired into the invocation: answer the call and append
\* {request, response} to the shared history
record_call(h, req, res) ==
    [h EXCEPT !.calls = Append(@, [request |-> req, response |-> res])]

\* the running module issues one transport call
GuestTransportCall ==
    /\ GuestRunning
    /\ Len(issued) < MaxCalls
    /\ \E req \in Requests :
       \E res \in (IF http_mode(values) = "Real" THEN RealResults
                   ELSE {default_http_handler}) :
          /\ history' = record_call(history, req, res)
          /\ issued' = Append(issued, <<req, res>>)
    /\ UNCHANGED <<concVars, guest_output, pc, cmd, requirements, values, report, err,
                   exit_code, harness,
                   invoke_base, ops, plan_value, encode_result, send_result, output,
                   logged, mockVars, hostVars, listenVars,
                   fnVars>>

\* handle_send: render_plan's invoke returns; decode, ensure_ok, plan_json
RenderPlanReturns ==
    /\ pc = "planning"
    /\ \/ \E e \in InvokeErrors :
             /\ log_http_history("render_plan")
             /\ Fail(map_invoke_error(e))
             /\ UNCHANGED <<plan_value, guest_output>>
       \/ \E out \in RenderOutputs :
             /\ guest_output' = out
             /\ UNCHANGED logged
             /\ IF out = Garbage
                THEN /\ Fail(decode_error("render_plan"))
                     /\ UNCHANGED plan_value
                ELSE /\ plan_value' = out
                     /\ IF ensure_ok(out, "render_plan") # NoError
                        THEN Fail(ensure_ok(out, "render_plan"))
                        ELSE IF ~out.plan_json
                        THEN Fail(CliError("ProviderOp", "render_plan missing plan_json"))
                        ELSE pc' = "encoding" /\ UNCHANGED <<err, exit_code>>
    /\ UNCHANGED <<concVars, cmd, requirements, values, report, harness, history, issued,
                   invoke_base, ops, encode_result, send_result, output, mockVars,
                   hostVars, listenVars,
                   fnVars>>

\* handle_send: encode_from_render_plan, then harness.invoke("send_payload", ...)
\* is entered
EncodeAndInvokeSend ==
    /\ pc = "encoding"
    /\ \E er \in EncodeResults :
          /\ encode_result' = er
          /\ IF ~er.ok
             THEN /\ Fail(CliError("ProviderOp", "encode_from_render_plan failed"))
                  /\ ops' = Append(ops, "encode")
                  /\ UNCHANGED invoke_base
             ELSE IF ~er.payload
             THEN /\ Fail(CliError("ProviderOp", "encode_from_render_plan missing payload"))
                  /\ ops' = Append(ops, "encode")
                  /\ UNCHANGED invoke_base
             ELSE /\ ops' = ops \o <<"encode", "send_payload">>
                  /\ invoke_base' = Len(issued)
                  /\ pc' = "sending"
                  /\ UNCHANGED <<err, exit_code>>
    /\ UNCHANGED <<concVars, guest_output, cmd, requirements, values, report, harness,
                   history, issued,
                   plan_value, send_result, output, logged, mockVars, hostVars, listenVars,
                   fnVars>>

\* a check that takes every decodable Send Result for a success
send_result_never_failed(out) == FALSE

\* handle_send: `if !send_result.ok`
send_result_failed(out) == ~out.ok

\* a failure branch that invokes send_payload again when the result is retryable
send_failure_retried(out) ==
    IF out.retryable
    THEN /\ ops' = Append(ops, "send_payload")
         /\ invoke_base' = Len(issued)
         /\ pc' = "sending"
         /\ UNCHANGED <<err, exit_code, logged, output>>
    ELSE /\ log_http_history("send_payload")
         /\ Fail(CliError("ProviderOp", "send_payload failed"))
         /\ UNCHANGED <<output, ops, invoke_base>>

\* handle_send: the Send Result has ok false: log the history, return ProviderOp
send_failure(out) ==
    /\ log_http_history("send_payload")
    /\ Fail(CliError("ProviderOp", "send_payload failed: " \o
               (IF out.message = None THEN "unknown error" ELSE out.message)))
    /\ UNCHANGED <<output, ops, invoke_base>>

\* handle_send: send_payload's invoke returns; decode, ok flag, final output
SendPayloadReturns ==
    /\ pc = "sending"
    /\ \/ \E e \in InvokeErrors :
             /\ log_http_history("send_payload")
             /\ Fail(map_invoke_error(e))
             /\ UNCHANGED <<send_result, output, ops, invoke_base, guest_output>>
       \/ \E out \in SendOutputs :
             IF out = Garbage
             THEN /\ Fail(decode_error("send_payload"))
                  /\ guest_output' = out
                  /\ UNCHANGED <<send_result, output, logged, ops, invoke_base>>
             ELSE /\ send_result' = out
                  /\ guest_output' = out
                  /\ IF send_result_failed(out)
                     THEN send_failure(out)
                     ELSE /\ output' = [plan |-> plan_value,
                                        encode_result |-> encode_result,
                                        http_calls |-> http_calls_snapshot(history.calls),
                                        result |-> out]
                          /\ Succeed
                          /\ UNCHANGED <<logged, ops, invoke_base>>
    /\ UNCHANGED <<concVars, cmd, requirements, values, report, harness, history, issued,
                   plan_value, encode_result, mockVars, hostVars, listenVars,
                   fnVars>>

\* handle_ingress: parse_http_in, then harness.invoke("ingest_http", ...) is entered
InvokeIngest ==
    /\ pc = "idle"
    /\ cmd = "ingress"
    /\ \/ /\ Fail(CliError("HttpInput", "http input load failed"))
          /\ UNCHANGED <<ops, invoke_base>>
       \/ /\ ops' = Append(ops, "ingest_http")
          /\ invoke_base' = Len(issued)
          /\ pc' = "ingesting"
          /\ UNCHANGED <<err, exit_code>>
    /\ UNCHANGED <<concVars, guest_output, cmd, requirements, values, report, harness,
                   history, issued,
                   plan_value, encode_result, send_result, output, logged, mockVars,
                   hostVars, listenVars,
                   fnVars>>

\* handle_ingress: ingest_http's invoke returns; decode, print the envelopes
IngestReturns ==
    /\ pc = "ingesting"
    /\ \/ \E e \in InvokeErrors :
             /\ Fail(map_invoke_error(e))
             /\ UNCHANGED <<output, guest_output>>
       \/ \E out \in IngestOutputs :
             IF out = Garbage
             THEN /\ Fail(decode_error("ingest_http"))
                  /\ guest_output' = out
                  /\ UNCHANGED output
             ELSE /\ output' = [envelopes |-> out.events]
                  /\ guest_output' = out
                  /\ Succeed
    /\ UNCHANGED <<concVars, cmd, requirements, values, report, harness, history, issued,
                   invoke_base, ops, plan_value, encode_result, send_result, logged,
                   mockVars, hostVars, listenVars,
                   fnVars>>

\* handle_listen after the gate: write the --http-in file, or run the listener
ListenDispatch ==
    /\ pc = "validated"
    /\ cmd = "listen"
    /\ \/ /\ Fail(CliError("Listen", "invalid http-in arguments"))
          /\ UNCHANGED output
       \/ /\ Fail(CliError("HttpOutput", "failed to write http-in file"))
          /\ UNCHANGED output
       \/ /\ output' = [http_in_file |-> TRUE]
          /\ Succeed
       \/ /\ Fail(CliError("Listen", "bind failed"))
          /\ UNCHANGED output
       \/ /\ pc' = "listening"
          /\ UNCHANGED <<err, exit_code, output>>
    /\ UNCHANGED <<concVars, guest_output, cmd, requirements, values, report, harness,
                   history, issued,
                   invoke_base, ops, plan_value, encode_result, send_result, logged,
                   mockVars, hostVars, listenVars,
                   fnVars>>

\* run_listener: the interrupt signal ends axum::serve with Ok
ListenShutdown ==
    /\ pc = "listening"
    /\ Succeed
    /\ UNCHANGED <<concVars, guest_output, cmd, requirements, values, report, harness,
                   history, issued,
                   invoke_base, ops, plan_value, encode_result, send_result, output,
                   logged, mockVars, hostVars, listenVars,
                   fnVars>>

Next ==
    \/ LoadAndValidate
    \/ SendBuildMessage
    \/ NewHarness
    \/ InvokeRenderPlan
    \/ GuestTransportCall
    \/ RenderPlanReturns
    \/ EncodeAndInvokeSend
    \/ SendPayloadReturns
    \/ InvokeIngest
    \/ IngestReturns
    \/ ListenDispatch
    \/ ListenShutdown

Spec == InitIdle /\ [][Next]_vars


(***************************************************************************)
(* Properties of the command run                                           *)
(***************************************************************************)
Count(s, x) == Cardinality({i \in 1..Len(s) : s[i] = x})

IsPrefix(s, t) == Len(s) <= Len(t) /\ \A i \in 1..Len(s) : s[i] = t[i]

ReportNonEmpty ==
    Len(report.missing_config) + Len(report.missing_secrets) + Len(report.missing_to) > 0

\* C2: in send, ingress and listen, a non-empty validation report ends the command
\* with a Validation error (exit code 2); the module is never instantiated, no
\* operation is invoked on it and no transport call is made.
C2_GateFailsClosed ==
    (cmd \in Commands /\ ReportNonEmpty) =>
        /\ pc = "failed"
        /\ err.kind = "Validation"
        /\ exit_code = 2
        /\ ~harness
        /\ ~history.created
        /\ ops = <<>>
        /\ issued = <<>>

\* the listen command stopped at the gate because a secret is missing
C2_Witness ==
    /\ cmd = "listen"
    /\ pc = "failed"
    /\ report.missing_secrets # <<>>
    /\ report.missing_config = <<>>

IssuedRecords == [i \in 1..Len(issued) |-> [request |-> issued[i][1], response |-> issued[i][2]]]

\* C4: the call history holds exactly one record per transport call the module
\* issued, in issuance order, each pairing the request with the result returned for
\* it; the calls of the running invocation are the records after those present when
\* it started; a successful send prints exactly these records as http_calls.
C4_HistoryComplete ==
    /\ history.created => history.calls = IssuedRecords
    /\ ~history.created => issued = <<>>
    /\ invoke_base <= Len(history.calls)
    /\ (cmd = "send" /\ pc = "done") => output.http_calls = IssuedRecords

\* a successful send after two different calls with different results
C4_Witness ==
    /\ cmd = "send"
    /\ pc = "done"
    /\ Len(output.http_calls) >= 2
    /\ output.http_calls[1].request # output.http_calls[2].request
    /\ output.http_calls[1].response # output.http_calls[2].response

\* C6: when the render_plan output has ok:false, neither encode nor send_payload is
\* invoked and the error returned names the render_plan stage.
C6_RenderFailureShortCircuits ==
    (plan_value # NoValue /\ plan_value.ok = "false") =>
        /\ pc = "failed"
        /\ "encode" \notin Range(ops)
        /\ "send_payload" \notin Range(ops)
        /\ err = CliError("ProviderOp", "render_plan reported failure")
        /\ exit_code = 4

\* render_plan returned ok:false together with a plan_json
C6_Witness ==
    /\ plan_value # NoValue
    /\ plan_value.ok = "false"
    /\ plan_value.plan_json
    /\ pc = "failed"

\* C7 (as claimed): encode is attempted only after a render_plan output whose ok
\* flag is present, a boolean, and true.
C7_EncodeOnlyAfterOkTrue ==
    "encode" \in Range(ops) => plan_value.ok = "true"

PipelineOrder == <<"render_plan", "encode", "send_payload">>

SendTransitions ==
    {<<"start", "validated">>, <<"start", "failed">>,
     <<"validated", "built">>, <<"validated", "failed">>,
     <<"built", "idle">>, <<"built", "failed">>,
     <<"idle", "planning">>,
     <<"planning", "planning">>, <<"planning", "encoding">>, <<"planning", "failed">>,
     <<"encoding", "sending">>, <<"encoding", "failed">>,
     <<"sending", "sending">>, <<"sending", "done">>, <<"sending", "failed">>}

\* what holds in every state of a send run
C8_Order ==
    cmd = "send" =>
        /\ IsPrefix(ops, PipelineOrder)
        /\ pc = "planning" => (ops = <<"render_plan">> /\ plan_value = NoValue)
        /\ pc = "encoding" => (ops = <<"render_plan">> /\ plan_value # NoValue)
        /\ pc = "sending" => ops = PipelineOrder
        /\ "send_payload" \in Range(ops) =>
              /\ plan_value # NoValue
              /\ encode_result # NoValue
              /\ encode_result.ok
              /\ encode_result.payload
        /\ pc = "done" =>
              /\ ops = PipelineOrder
              /\ send_result # NoValue
              /\ send_result.ok
              /\ exit_code = 0
              /\ output # NoValue
              /\ output.result = send_result

\* C8: the send run moves Idle -> Planning -> Encoding -> Sending -> Done | Failed:
\* the steps start only in the order render_plan, encode, send_payload; send_payload
\* starts only after render_plan returned and encode produced a payload; Done (exit
\* code 0 with the aggregated output) is reached only with a Send Result whose ok
\* is true; Done and Failed are terminal.
C8_StateMachine ==
    /\ []C8_Order
    /\ [][cmd' = "send" => <<pc, pc'>> \in SendTransitions]_vars
    /\ [][(pc \in {"done", "failed"}) => UNCHANGED vars]_vars

\* a send run that went through every stage and is Done
C8_Witness ==
    /\ cmd = "send"
    /\ pc = "done"
    /\ ops = PipelineOrder
    /\ send_result.ok

\* C9 (as claimed): after any failure of the send pipeline that follows the start
\* of render_plan, every recorded transport call has been shown to the caller.
C9_HistoryExposedOnFailure ==
    (cmd = "send" /\ pc = "failed" /\ "render_plan" \in Range(ops)) =>
        \A i \in 1..Len(history.calls) :
            /\ logged # NoValue
            /\ i <= Len(logged.lines)
            /\ logged.lines[i].request = history.calls[i].request
            /\ logged.lines[i].status = history.calls[i].response.status

\* each step at most once, and every failing result leaves the run failed
C10_Steps ==
    /\ Count(ops, "render_plan") <= 1
    /\ Count(ops, "encode") <= 1
    /\ Count(ops, "send_payload") <= 1
    /\ (send_result # NoValue /\ ~send_result.ok) => pc = "failed"
    /\ (encode_result # NoValue /\ ~(encode_result.ok /\ encode_result.payload))
          => pc = "failed"
    /\ (plan_value # NoValue /\ plan_value.ok = "false") => pc = "failed"

\* C10: within one send run render_plan is invoked at most once and send_payload at
\* most once; a failed step ends the run, also when the Send Result says retryable.
C10_NoRetry ==
    /\ []C10_Steps
    /\ [][pc = "failed" => (ops' = ops /\ pc' = "failed")]_vars

\* the Send Result was ok:false with retryable:true and the run stopped
C10_Witness ==
    /\ send_result # NoValue
    /\ ~send_result.ok
    /\ send_result.retryable
    /\ pc = "failed"
    /\ Count(ops, "send_payload") = 1


(***************************************************************************)
(* SpecMock: the mock response queue                                       *)
(***************************************************************************)
MockResponses == {Response(200, "m1"), Response(404, "nf")}

\* queue_mock_response(queue, status, body): append to the FIFO queue
queue_mock_response(q, res) == Append(q, res)

\* clear_mock_responses(queue): empty it
clear_mock_responses(q) == <<>>

\* a transport call in mock mode: the head of the queue, else the default success
mock_response(q) == IF q # <<>> THEN Head(q) ELSE default_http_handler
mock_rest(q) == IF q # <<>> THEN Tail(q) ELSE q

QueueResponse ==
    /\ Len(queued_log) < MaxQueued
    /\ \E res \in MockResponses :
          /\ queue' = queue_mock_response(queue, res)
          /\ queued_log' = Append(queued_log, res)
    /\ UNCHANGED <<concVars, gone, served, expected, gateVars, runVars, hostVars, listenVars,
                   fnVars>>

ClearResponses ==
    /\ queue' = clear_mock_responses(queue)
    /\ gone' = Len(queued_log)
    /\ UNCHANGED <<concVars, queued_log, served, expected, gateVars, runVars, hostVars, listenVars,
                   fnVars>>

\* tests::queue_webex_response: clear, then queue one response
QueueWebexResponse ==
    /\ Len(queued_log) < MaxQueued
    /\ \E res \in MockResponses :
          /\ queue' = queue_mock_response(clear_mock_responses(queue), res)
          /\ gone' = Len(queued_log)
          /\ queued_log' = Append(queued_log, res)
    /\ UNCHANGED <<concVars, served, expected, gateVars, runVars, hostVars, listenVars,
                   fnVars>>

MockTransportCall ==
    /\ Len(served) < MaxMockCalls
    /\ served' = Append(served, mock_response(queue))
    /\ queue' = mock_rest(queue)
    /\ expected' = Append(expected,
                          IF gone < Len(queued_log) THEN queued_log[gone + 1]
                          ELSE Response(200, "{\"status\":\"ok\"}"))
    /\ gone' = IF gone < Len(queued_log) THEN gone + 1 ELSE gone
    /\ UNCHANGED <<concVars, queued_log, gateVars, runVars, hostVars, listenVars,
                   fnVars>>

NextMock == QueueResponse \/ ClearResponses \/ QueueWebexResponse \/ MockTransportCall

SpecMock == InitIdle /\ [][NextMock]_vars

\* C3: every transport call is served the oldest queued response that is neither
\* consumed nor cleared, and the default success (200, {"status":"ok"}) when there is
\* none; the pending responses are exactly those queued and not yet consumed or
\* cleared, so after clear() none is pending.
C3_Fifo ==
    /\ served = expected
    /\ gone <= Len(queued_log)
    /\ queue = SubSeq(queued_log, gone + 1, Len(queued_log))

\* queue A, B; a call gets A; clear; a call gets the default; queue C; a call gets C
C3_Witness ==
    /\ Len(served) = 3
    /\ Len(queued_log) = 3
    /\ served[1] = queued_log[1]
    /\ served[2] = Response(200, "{\"status\":\"ok\"}")
    /\ served[3] = queued_log[3]
    /\ queued_log[1] # queued_log[3]

(***************************************************************************)
(* SpecHost: TestHostState (provider-tests harness)                        *)
(***************************************************************************)
HostRequests ==
    [method : {"GET", "POST"}, url : {"https://api/messages"},
     headers : {<<>>, <<<<"Authorization", "Bearer t">>>>}, body : {NoValue, [bytes |-> "b"]}]

\* what a handler given to with_secrets may answer
CustomResults == {Response(200, "m1"), Response(404, "nf"), TransportError}

HandlerResults(handler) ==
    IF handler = "default" THEN {default_http_handler} ELSE CustomResults

\* default_secret_values(): the SECRET_PAIRS table (two of its nine pairs)
default_secret_values ==
    [k \in {"WEBEX_BOT_TOKEN", "SLACK_BOT_TOKEN"} |->
        IF k = "WEBEX_BOT_TOKEN" THEN "webex-token" ELSE "slack-token"]

SecretNames == {"WEBEX_BOT_TOKEN", "MY_KEY"}
SecretBytes == {"v1", "v2"}
StateKeys == {"k1", "k2"}

\* TestHostState::with_default_secrets / with_secrets(secrets, handler)
HostNew ==
    /\ http_handler = "unset"
    /\ \E h \in {"default", "custom"} :
       \E m \in (IF h = "default" THEN {default_secret_values}
                 ELSE {<<>>, default_secret_values}) :
          /\ http_handler' = h
          /\ secrets' = m
          /\ cap_log' = <<[op |-> "new", key |-> "", value |-> m, result |-> NoValue]>>
    /\ last_request' = NoValue
    /\ UNCHANGED <<concVars, guest_results, gateVars, runVars, mockVars, listenVars, fnVars>>

\* capability calls still allowed under the bound on one host's calls
HostCallAllowed ==
    /\ http_handler # "unset"
    /\ Len(guest_results) + Len(cap_log) <= MaxHostCalls

Ok(value) == [ok |-> TRUE, value |-> value]

\* SecretsStoreHostV1_1::get: Ok(self.secrets.get(&key).cloned())
secrets_get(map, key) == Ok(IF key \in DOMAIN map THEN Some(map[key]) ELSE <<>>)

\* a put that replaces the whole map by the one entry
secrets_put_only(map, key, value) == [k \in {key} |-> value]

\* SecretsStoreHostV1_1::put: self.secrets.insert(key, value)
secrets_put(map, key, value) ==
    [k \in DOMAIN map \cup {key} |-> IF k = key THEN value ELSE map[k]]

HostSecretsGet ==
    /\ HostCallAllowed
    /\ \E key \in SecretNames :
          cap_log' = Append(cap_log, [op |-> "get", key |-> key, value |-> "",
                                      result |-> secrets_get(secrets, key)])
    /\ UNCHANGED <<concVars, http_handler, last_request, guest_results, secrets, gateVars,
                   runVars, mockVars, listenVars, fnVars>>

HostSecretsPut ==
    /\ HostCallAllowed
    /\ \E key \in SecretNames, value \in SecretBytes :
          /\ secrets' = secrets_put(secrets, key, value)
          /\ cap_log' = Append(cap_log, [op |-> "put", key |-> key, value |-> value,
                                         result |-> NoValue])
    /\ UNCHANGED <<concVars, http_handler, last_request, guest_results, gateVars, runVars,
                   mockVars, listenVars, fnVars>>

\* Err(StateStoreError { code: "unimplemented", message: ... })
StateStoreError ==
    [ok |-> FALSE, code |-> "unimplemented",
     message |-> "state store not available in universal tests"]

\* a delete that acknowledges
state_store_delete_acked == [ok |-> TRUE, code |-> "", message |-> ""]

state_store_read == StateStoreError
state_store_write == StateStoreError
state_store_delete == StateStoreError

HostStateRead ==
    /\ HostCallAllowed
    /\ \E key \in StateKeys :
          cap_log' = Append(cap_log, [op |-> "read", key |-> key, value |-> "",
                                      result |-> state_store_read])
    /\ UNCHANGED <<concVars, http_handler, last_request, guest_results, secrets, gateVars,
                   runVars, mockVars, listenVars, fnVars>>

HostStateWrite ==
    /\ HostCallAllowed
    /\ \E key \in StateKeys, bytes \in {"v1"} :
          cap_log' = Append(cap_log, [op |-> "write", key |-> key, value |-> bytes,
                                      result |-> state_store_write])
    /\ UNCHANGED <<concVars, http_handler, last_request, guest_results, secrets, gateVars,
                   runVars, mockVars, listenVars, fnVars>>

HostStateDelete ==
    /\ HostCallAllowed
    /\ \E key \in StateKeys :
          cap_log' = Append(cap_log, [op |-> "delete", key |-> key, value |-> "",
                                      result |-> state_store_delete])
    /\ UNCHANGED <<concVars, http_handler, last_request, guest_results, secrets, gateVars,
                   runVars, mockVars, listenVars, fnVars>>

\* a send that records the request only once the handler has answered with a response
recorded_if_answered(req, result, before) ==
    IF result.kind = "error" THEN before ELSE req

\* send: self.last_request.replace(Some(req.clone())), whatever the handler returns
recorded_request(req, result, before) == req

\* HttpClientHostV1_1::send for TestHostState
HostSend ==
    /\ HostCallAllowed
    /\ Len(guest_results) < MaxSends
    /\ \E req \in HostRequests :
       \E result \in HandlerResults(http_handler) :
          /\ last_request' = recorded_request(req, result, last_request)
          /\ guest_results' = Append(guest_results, <<req, result>>)
    /\ UNCHANGED <<concVars, http_handler, secrets, cap_log, gateVars, runVars, mockVars,
                   listenVars, fnVars>>

NextHost ==
    \/ HostNew
    \/ HostSend
    \/ HostSecretsGet
    \/ HostSecretsPut
    \/ HostStateRead
    \/ HostStateWrite
    \/ HostStateDelete

SpecHost == InitIdle /\ [][NextHost]_vars

\* C5: whenever the guest has received the result of a send, response or error, the
\* host's record of that request (last_request) already holds that request.
C5_RecordedBeforeReturn ==
    guest_results # <<>> =>
        /\ last_request # NoValue
        /\ last_request = guest_results[Len(guest_results)][1]

\* the guest received an error for a request that differs from the one before it
C5_Witness ==
    /\ Len(guest_results) >= 2
    /\ guest_results[Len(guest_results)][2].kind = "error"
    /\ guest_results[Len(guest_results)][1] # guest_results[Len(guest_results) - 1][1]
    /\ last_request = guest_results[Len(guest_results)][1]

StateStoreOps == {"read", "write", "delete"}

\* the step is a call of the state store
StateStoreStep ==
    /\ Len(cap_log') = Len(cap_log) + 1
    /\ cap_log'[Len(cap_log')].op \in StateStoreOps

\* C15: every state-store read, write and delete returns the fault with code
\* "unimplemented", none ever succeeds, and no such call changes the host's state.
C15_StateStoreUnimplemented ==
    /\ [](\A i \in 1..Len(cap_log) :
            cap_log[i].op \in StateStoreOps =>
                /\ cap_log[i].result.ok = FALSE
                /\ cap_log[i].result.code = "unimplemented")
    /\ [][StateStoreStep =>
            UNCHANGED <<secrets, last_request, http_handler, guest_results>>]_vars

\* a write, then a read and a delete of the written key
C15_Witness ==
    /\ Len(cap_log) = 4
    /\ cap_log[2].op = "write"
    /\ cap_log[3].op = "read"
    /\ cap_log[4].op = "delete"
    /\ cap_log[3].key = cap_log[2].key
    /\ cap_log[4].key = cap_log[2].key
    /\ cap_log[3].result = StateStoreError

\* the value a get at position i of the log must return: that of the latest put on
\* the key before i, else the constructor's entry for it, else nothing
PutsBefore(i, key) ==
    {j \in 2..(i - 1) : cap_log[j].op = "put" /\ cap_log[j].key = key}

LatestPut(i, key) ==
    CHOOSE j \in PutsBefore(i, key) : \A j2 \in PutsBefore(i, key) : j2 <= j

ExpectedGet(i) ==
    LET key == cap_log[i].key
    IN IF PutsBefore(i, key) # {} THEN <<cap_log[LatestPut(i, key)].value>>
       ELSE IF key \in DOMAIN cap_log[1].value THEN <<cap_log[1].value[key]>>
       ELSE <<>>

SecretsStep(op) ==
    /\ Len(cap_log') = Len(cap_log) + 1
    /\ cap_log'[Len(cap_log')].op = op

\* C16: get on an absent key returns Ok(None), never a fault; after put(k, v) a get(k)
\* returns v; a put on k leaves the values of all other keys unchanged; a get changes
\* nothing.
C16_SecretsStore ==
    /\ [](\A i \in 1..Len(cap_log) :
            cap_log[i].op = "get" =>
                /\ cap_log[i].result.ok = TRUE
                /\ cap_log[i].result.value = ExpectedGet(i))
    /\ [][SecretsStep("get") => UNCHANGED <<secrets, last_request, http_handler>>]_vars
    /\ [][SecretsStep("put") =>
            \A k \in (DOMAIN secrets \cup DOMAIN secrets') \ {cap_log'[Len(cap_log')].key} :
                /\ k \in DOMAIN secrets
                /\ k \in DOMAIN secrets'
                /\ secrets'[k] = secrets[k]]_vars

\* an absent key read as None, then put, then read back, with another key present
C16_Witness ==
    /\ Len(cap_log) = 4
    /\ cap_log[1].value = default_secret_values
    /\ cap_log[2].op = "get"
    /\ cap_log[2].key = "MY_KEY"
    /\ cap_log[2].result = Ok(<<>>)
    /\ cap_log[3].op = "put"
    /\ cap_log[3].key = "MY_KEY"
    /\ cap_log[4].op = "get"
    /\ cap_log[4].key = "MY_KEY"
    /\ cap_log[4].result = Ok(<<cap_log[3].value>>)
    /\ secrets["WEBEX_BOT_TOKEN"] = "webex-token"

(***************************************************************************)
(* SpecValues: Values::http_mode and Values::secret_bytes as functions of  *)
(* a Values document                                                       *)
(***************************************************************************)
MaxHttpLen == 4     \* longest http selector string drawn

HttpChars == {"r", "R", "e", "E", "a", "A", "l", "L", "x"}
SecretKeys == {"token", "extra"}
SecretValues ==
    {JString(<<>>), JString(<<"t", "o", "k">>), JString(<<"4", "2">>),
     JString(<<"a", "\"", "b">>), JNumber(7), JNumber(42), JBool(TRUE), JNull,
     JArray(<<>>), JArray(<<JNumber(1), JString(<<"x">>)>>)}

\* Values with a drawn http selector (Values.http is Option<String>)
ValuesLoadHttp ==
    /\ fn_in = NoValue
    /\ \E h \in {<<>>} \cup {Some(c) : c \in SeqsUpTo(HttpChars, MaxHttpLen)} :
          fn_in' = [EmptyValues EXCEPT !.http = h]
    /\ UNCHANGED <<concVars, fn_out, fn_calls, gateVars, runVars, mockVars, hostVars, listenVars>>

\* Values with a drawn secrets map
ValuesLoadSecrets ==
    /\ fn_in = NoValue
    /\ \E K \in SUBSET SecretKeys : \E m \in [K -> SecretValues] :
          fn_in' = [EmptyValues EXCEPT !.secrets = m]
    /\ UNCHANGED <<concVars, fn_out, fn_calls, gateVars, runVars, mockVars, hostVars, listenVars>>

HttpModeCall ==
    /\ fn_in # NoValue
    /\ fn_out = NoValue
    /\ fn_out' = [fn |-> "http_mode", result |-> http_mode(fn_in)]
    /\ UNCHANGED <<concVars, fn_in, fn_calls, gateVars, runVars, mockVars, hostVars, listenVars>>

SecretBytesCall ==
    /\ fn_in # NoValue
    /\ fn_out = NoValue
    /\ fn_out' = [fn |-> "secret_bytes", result |-> secret_bytes(fn_in)]
    /\ UNCHANGED <<concVars, fn_in, fn_calls, gateVars, runVars, mockVars, hostVars, listenVars>>

NextValues == ValuesLoadHttp \/ ValuesLoadSecrets \/ HttpModeCall \/ SecretBytesCall

SpecValues == InitIdle /\ [][NextValues]_vars

\* "real" up to ASCII case, spelled out letter by letter
IsRealIgnoringCase(opt) ==
    /\ opt # <<>>
    /\ Len(opt[1]) = 4
    /\ opt[1][1] \in {"r", "R"}
    /\ opt[1][2] \in {"e", "E"}
    /\ opt[1][3] \in {"a", "A"}
    /\ opt[1][4] \in {"l", "L"}

\* C17: http_mode returns Real exactly when http is present and equals "real"
\* ASCII case-insensitively; an absent http and every other string give Mock.
C17_HttpModeRealOnly ==
    (fn_out # NoValue /\ fn_out.fn = "http_mode") =>
        /\ fn_out.result \in {"Real", "Mock"}
        /\ (fn_out.result = "Real") = IsRealIgnoringCase(fn_in.http)

C17_Witness ==
    /\ fn_out # NoValue
    /\ fn_out.fn = "http_mode"
    /\ fn_in.http = Some(<<"R", "e", "A", "l">>)
    /\ fn_out.result = "Real"

\* the bytes each drawn secret value must turn into, written out by hand
ExpectedSecretBytes(v) ==
    CASE v = JString(<<>>)                -> <<>>
      [] v = JString(<<"t", "o", "k">>)   -> <<"t", "o", "k">>
      [] v = JString(<<"4", "2">>)        -> <<"4", "2">>
      [] v = JString(<<"a", "\"", "b">>)  -> <<"a", "\"", "b">>
      [] v = JNumber(7)                   -> <<"7">>
      [] v = JNumber(42)                  -> <<"4", "2">>
      [] v = JBool(TRUE)                  -> <<"t", "r", "u", "e">>
      [] v = JNull                        -> <<"n", "u", "l", "l">>
      [] v = JArray(<<>>)                 -> <<"[", "]">>
      [] v = JArray(<<JNumber(1), JString(<<"x">>)>>)
                                          -> <<"[", "1", ",", "\"", "x", "\"", "]">>

\* C18: secret_bytes has exactly the keys of secrets; a string value becomes its
\* bytes verbatim, without quotes, and any other value the bytes of its JSON text.
C18_SecretBytes ==
    (fn_out # NoValue /\ fn_out.fn = "secret_bytes") =>
        /\ DOMAIN fn_out.result = DOMAIN fn_in.secrets
        /\ \A k \in DOMAIN fn_in.secrets :
              fn_out.result[k] = ExpectedSecretBytes(fn_in.secrets[k])

C18_Witness ==
    /\ fn_out # NoValue
    /\ fn_out.fn = "secret_bytes"
    /\ DOMAIN fn_in.secrets = SecretKeys
    /\ fn_in.secrets["token"] = JString(<<"t", "o", "k">>)
    /\ fn_in.secrets["extra"] = JNumber(42)
    /\ fn_out.result["token"] = <<"t", "o", "k">>
    /\ fn_out.result["extra"] = <<"4", "2">>

(***************************************************************************)
(* Webhook signature (main.rs): verify_webex_signature, find_header_value, *)
(* decode_hex.  A string is the sequence of its characters; a header value *)
(* is the sequence of its comma-separated segments, each trimmed and split *)
(* into its name up to and including "=" and the text after it.            *)
(***************************************************************************)
MaxHex == 3     \* longest text drawn after a segment's "="

HexChars == {"0", "a", "A", "+", "g", "\"", " "}
SigSecrets == {<<"s", "1">>, <<"s", "2">>}
SigBodies == {"b1", "b2"}

\* HMAC-SHA256(secret, body): distinct digests for distinct inputs, one byte long here
hmac_sha256(secret, body) ==
    CASE secret = <<"s", "1">> /\ body = "b1" -> <<10>>
      [] secret = <<"s", "1">> /\ body = "b2" -> <<160>>
      [] secret = <<"s", "2">> /\ body = "b1" -> <<170>>
      [] secret = <<"s", "2">> /\ body = "b2" -> <<0>>

\* str::trim_matches(c): drop every leading and trailing c
RECURSIVE trim_start_matches(_, _)
trim_start_matches(chars, c) ==
    IF chars # <<>> /\ Head(chars) = c THEN trim_start_matches(Tail(chars), c) ELSE chars

RECURSIVE trim_end_matches(_, _)
trim_end_matches(chars, c) ==
    IF chars # <<>> /\ chars[Len(chars)] = c
    THEN trim_end_matches(SubSeq(chars, 1, Len(chars) - 1), c)
    ELSE chars

trim_matches(chars, c) == trim_end_matches(trim_start_matches(chars, c), c)

\* str::trim (the only whitespace drawn is the space)
trim(chars) == trim_matches(chars, " ")

\* char::to_digit(16)
IsHexDigit(c) == c \in {"0", "a", "A"}
hex_digit(c) == IF c = "0" THEN 0 ELSE 10

\* u8::from_str_radix(src, 16): an optional "+", then at least one hex digit
from_str_radix(src) ==
    LET digits == IF src # <<>> /\ Head(src) = "+" THEN Tail(src) ELSE src
    IN IF digits = <<>> \/ \E i \in 1..Len(digits) : ~IsHexDigit(digits[i])
       THEN <<>>
       ELSE Some(IF Len(digits) = 1 THEN hex_digit(digits[1])
                 ELSE (hex_digit(digits[1]) * 16 + hex_digit(digits[2])) % 256)

\* [u8]::chunks(2)
RECURSIVE chunks2(_)
chunks2(chars) ==
    IF chars = <<>> THEN <<>>
    ELSE IF Len(chars) <= 2 THEN <<chars>>
    ELSE <<SubSeq(chars, 1, 2)>> \o chunks2(SubSeq(chars, 3, Len(chars)))

\* a decoder that takes two hex digits per byte and nothing else
decode_hex_strict(input) ==
    IF Len(input) % 2 # 0 \/ \E i \in 1..Len(input) : ~IsHexDigit(input[i])
    THEN <<>>
    ELSE Some([i \in 1..(Len(input) \div 2) |->
                  hex_digit(input[2 * i - 1]) * 16 + hex_digit(input[2 * i])])

\* decode_hex: None for an odd length, else each 2-chunk of the trimmed input parsed
decode_hex(input) ==
    IF Len(input) % 2 # 0 THEN <<>>
    ELSE LET chunks == chunks2(trim(input))
         IN IF \E i \in 1..Len(chunks) : from_str_radix(chunks[i]) = <<>>
            THEN <<>>
            ELSE Some([i \in 1..Len(chunks) |-> from_str_radix(chunks[i])[1]])

\* find_header_value: the first header with that name (names arrive lower-cased)
find_header_value(headers, key) ==
    LET hits == {i \in 1..Len(headers) : headers[i].name = key}
    IN IF hits = {} THEN <<>>
       ELSE Some(headers[CHOOSE i \in hits : \A j \in hits : i <= j].value)

\* split(',').find_map(|segment| segment.trim().strip_prefix("SHA-256=").map(trim))
sha256_part(header_value) ==
    LET hits == {i \in 1..Len(header_value) : header_value[i].name = "SHA-256="}
    IN IF hits = {} THEN <<>>
       ELSE Some(trim(header_value[CHOOSE i \in hits : \A j \in hits : i <= j].text))

verify_webex_signature(secret, headers, body) ==
    LET webex == find_header_value(headers, "x-webex-signature")
        header_value == IF webex # <<>> THEN webex
                        ELSE find_header_value(headers, "x-spark-signature")
    IN IF header_value = <<>> THEN FALSE
       ELSE LET part == sha256_part(header_value[1])
            IN IF part = <<>> THEN FALSE
               ELSE LET sig_bytes == decode_hex(trim_matches(part[1], "\""))
                    IN IF sig_bytes = <<>> THEN FALSE
                       ELSE sig_bytes[1] = hmac_sha256(secret, body)

(***************************************************************************)
(* SpecVerify: verify_webex_signature as a function of (secret, headers,   *)
(* body)                                                                   *)
(***************************************************************************)
Segment(name, text) == [name |-> name, text |-> text]
Header(name, value) == [name |-> name, value |-> value]

FirstSegments ==
    {Segment(n, t) : n \in {"SHA-256=", "SHA-1="}, t \in SeqsUpTo(HexChars, MaxHex)}
LaterSegments ==
    {Segment("SHA-256=", <<"0", "a">>), Segment("SHA-256=", <<"a", "0">>),
     Segment("SHA-1=", <<"0", "a">>)}
HeaderValues == {<<f>> : f \in FirstSegments} \cup (FirstSegments \X LaterSegments)
FixedValues ==
    {<<Segment("SHA-256=", <<"0", "a">>)>>, <<Segment("SHA-256=", <<"a", "a">>)>>,
     <<Segment("SHA-1=", <<"0", "a">>)>>}
HeaderLists ==
    {<<>>}
    \cup {<<Header(n, v)>> :
             n \in {"x-webex-signature", "x-spark-signature", "content-type"},
             v \in HeaderValues}
    \cup {<<Header("x-spark-signature", v), Header("x-webex-signature", w)>> :
             v \in FixedValues, w \in FixedValues}

VerifyInput ==
    /\ fn_in = NoValue
    /\ \E secret \in SigSecrets, headers \in HeaderLists, body \in SigBodies :
          fn_in' = [secret |-> secret, headers |-> headers, body |-> body]
    /\ UNCHANGED <<concVars, fn_out, fn_calls, gateVars, runVars, mockVars, hostVars, listenVars>>

VerifyCall ==
    /\ fn_in # NoValue
    /\ fn_out = NoValue
    /\ fn_out' = [fn |-> "verify_webex_signature",
                  result |-> verify_webex_signature(fn_in.secret, fn_in.headers,
                                                    fn_in.body)]
    /\ UNCHANGED <<concVars, fn_in, fn_calls, gateVars, runVars, mockVars, hostVars, listenVars>>

NextVerify == VerifyInput \/ VerifyCall

SpecVerify == InitIdle /\ [][NextVerify]_vars

\* lower-case hex of one byte, over the digits drawn
HexOfNibble(n) == IF n = 0 THEN "0" ELSE "a"
HexOf(bytes) == <<HexOfNibble(bytes[1] \div 16), HexOfNibble(bytes[1] % 16)>>

\* the header the signature is read from, and its first SHA-256= segment
SignatureHeaders(headers) ==
    IF \E i \in 1..Len(headers) : headers[i].name = "x-webex-signature"
    THEN SelectSeq(headers, LAMBDA h : h.name = "x-webex-signature")
    ELSE SelectSeq(headers, LAMBDA h : h.name = "x-spark-signature")

Sha256Segments(headers) ==
    IF SignatureHeaders(headers) = <<>> THEN <<>>
    ELSE SelectSeq(SignatureHeaders(headers)[1].value, LAMBDA g : g.name = "SHA-256=")

\* the digest text as sent, without surrounding blanks and quotes
SentDigest(headers) == trim_matches(trim(Sha256Segments(headers)[1].text), "\"")

IsEvenLengthHex(text) ==
    /\ Len(text) % 2 = 0
    /\ \A i \in 1..Len(text) : text[i] \in {"0", "a", "A"}

\* C12: with the first SHA-256= segment carrying the hex HMAC-SHA256 of the body under
\* the secret, verification is true; with no signature header, no SHA-256= segment, or
\* a digest that is not valid even-length hex, it is false; a valid hex digest of other
\* bytes is false.
C12_VerifySignature ==
    (fn_out # NoValue /\ fn_out.fn = "verify_webex_signature") =>
        LET segs == Sha256Segments(fn_in.headers)
            mac == hmac_sha256(fn_in.secret, fn_in.body)
        IN /\ segs = <<>> => fn_out.result = FALSE
           /\ (segs # <<>> /\ segs[1].text = HexOf(mac)) => fn_out.result = TRUE
           /\ (segs # <<>> /\ ~IsEvenLengthHex(SentDigest(fn_in.headers)))
                 => fn_out.result = FALSE
           /\ (segs # <<>> /\ IsEvenLengthHex(SentDigest(fn_in.headers))
                 /\ decode_hex_strict(SentDigest(fn_in.headers)) # Some(mac))
                 => fn_out.result = FALSE

(***************************************************************************)
(* SpecListen: the live listener (run_listener, handle_listener_request,   *)
(* ingest_http_request).  Requests are handled concurrently; each one is   *)
(* received, checked, dispatched to a blocking worker, and answered.       *)
(***************************************************************************)
MaxConns == 2    \* requests one listener receives

ListenProviders == {"webex", "telegram"}
SigConfigValues == {JString(<<"s", "1">>), JString(<<"s", "2">>), JNumber(7)}

signature_candidates(provider) ==
    <<provider \o "_signature_secret", provider \o "_webhook_signature_secret">>

\* load_webhook_signature_secret: the first candidate key holding a JSON string
load_webhook_signature_secret(vals, provider) ==
    LET candidates == signature_candidates(provider)
        hits == {i \in 1..Len(candidates) :
                    /\ candidates[i] \in DOMAIN vals.config
                    /\ vals.config[candidates[i]].t = "string"}
    IN IF hits = {} THEN <<>>
       ELSE Some(vals.config[candidates[CHOOSE i \in hits : \A j \in hits : i <= j]].s)

ListenerHeaders ==
    {<<>>, <<Header("x-webex-signature", <<Segment("SHA-256=", <<"0", "a">>)>>)>>}

NoResponse == [status |-> 0, body |-> ""]

\* what running ingest_http_request on the worker thread can do
WorkerRuns ==
    {[kind |-> "load_error", e |-> "", out |-> Garbage, invoked |-> FALSE]}
    \cup [kind : {"invoke_error"}, e : InvokeErrors, out : {Garbage}, invoked : {TRUE}]
    \cup [kind : {"returned"}, e : {""}, out : IngestOutputs, invoked : {TRUE}]
    \cup [kind : {"panic"}, e : {""}, out : {Garbage}, invoked : BOOLEAN]

NoRun == [kind |-> "none", e |-> "", out |-> Garbage, invoked |-> FALSE]

\* run_listener: ListenerState from the validated Values, then serve
ListenerStart ==
    /\ ~listener.running
    /\ conns = <<>>
    /\ listener = NoListener
    /\ \E provider \in ListenProviders :
       \E K \in SUBSET Range(signature_candidates(provider)) :
       \E config \in [K -> SigConfigValues] :
          listener' = [running |-> TRUE, provider |-> provider,
                       signature_secret |->
                           load_webhook_signature_secret(
                               [EmptyValues EXCEPT !.config = config], provider)]
    /\ UNCHANGED <<concVars, conns, fnVars, gateVars, runVars, mockVars, hostVars>>

\* an accept loop that waits while a module invocation runs on the runtime's thread
accept_ready_when_idle(l, cs) ==
    l.running /\ \A i \in 1..Len(cs) : cs[i].state # "dispatched"

\* axum::serve's accept loop on the runtime: ready while the server runs, since the
\* module invocations run in spawn_blocking workers
accept_ready(l, cs) == l.running

\* a request arrives and its handler task starts
ListenerAccept ==
    /\ accept_ready(listener, conns)
    /\ Len(conns) < MaxConns
    /\ \E headers \in ListenerHeaders, body \in SigBodies :
          conns' = Append(conns,
                      [state |-> "received", headers |-> headers, body |-> body,
                       response |-> NoResponse, run |-> NoRun,
                       panics_before |->
                           Cardinality({j \in 1..Len(conns) :
                                           conns[j].run.kind = "panic"})])
    /\ UNCHANGED <<concVars, listener, fnVars, gateVars, runVars, mockVars, hostVars>>

\* a check that lets every request through
signature_rejects_never(l, conn) == FALSE

\* handle_listener_request: the guard of the 401 return
signature_rejects(l, conn) ==
    /\ l.provider = "webex"
    /\ l.signature_secret # <<>>
    /\ ~verify_webex_signature(l.signature_secret[1], conn.headers, conn.body)

\* handle_listener_request: the 401 return, or on to spawn_blocking
handler_outcome(conn, rejects) ==
    IF rejects
    THEN [conn EXCEPT !.state = "responded",
                      !.response = [status |-> 401,
                                    body |-> "invalid webex webhook signature"]]
    ELSE [conn EXCEPT !.state = "dispatched"]

\* handle_listener_request up to spawn_blocking
ListenerHandle(i) ==
    /\ conns[i].state = "received"
    /\ conns' = [conns EXCEPT ![i] =
                    handler_outcome(@, signature_rejects(listener, conns[i]))]
    /\ UNCHANGED <<concVars, listener, fnVars, gateVars, runVars, mockVars, hostVars>>

\* an ingest that also fails when the module's own HTTP status is an error
ingest_http_request_checked(run) ==
    CASE run.kind = "load_error"   -> [ok |-> FALSE, value |-> "harness load failed"]
      [] run.kind = "invoke_error" -> [ok |-> FALSE, value |-> map_invoke_error(run.e).msg]
      [] run.kind = "returned" /\ run.out = Garbage
                                   -> [ok |-> FALSE, value |-> "decode failed"]
      [] run.kind = "returned" /\ run.out # Garbage /\ run.out.status >= 400
                                   -> [ok |-> FALSE, value |-> "module error"]
      [] OTHER                     -> [ok |-> TRUE, value |-> "events"]

\* ingest_http_request: Err(text) when loading, invoking or decoding fails, else the events
ingest_http_request(run) ==
    CASE run.kind = "load_error"   -> [ok |-> FALSE, value |-> "harness load failed"]
      [] run.kind = "invoke_error" -> [ok |-> FALSE, value |-> map_invoke_error(run.e).msg]
      [] run.kind = "returned" /\ run.out = Garbage
                                   -> [ok |-> FALSE, value |-> "decode failed"]
      [] OTHER                     -> [ok |-> TRUE, value |-> "events"]

\* tokio::task::spawn_blocking(..).await: Err(JoinError) when the closure panicked
spawn_blocking(run) ==
    IF run.kind = "panic" THEN [joined |-> FALSE, result |-> NoValue]
    ELSE [joined |-> TRUE, result |-> ingest_http_request(run)]

\* handle_listener_request: the match on the joined result
listener_response(joined) ==
    IF ~joined.joined THEN [status |-> 500, body |-> "ingest runtime panic"]
    ELSE IF joined.result.ok THEN [status |-> 200, body |-> "ok"]
    ELSE [status |-> 500, body |-> joined.result.value]

\* a server that stops once a worker has panicked
listener_down_on_panic(l, run) ==
    IF run.kind = "panic" THEN [l EXCEPT !.running = FALSE] ELSE l

\* the server after a worker finished: no arm of the match stops it
listener_after_worker(l, run) == l

\* the worker runs ingest_http_request; the handler awaits it and answers
ListenerWorker(i) ==
    /\ conns[i].state = "dispatched"
    /\ \E run \in WorkerRuns :
          /\ conns' = [conns EXCEPT ![i] =
                          [@ EXCEPT !.state = "responded", !.run = run,
                                    !.response = listener_response(spawn_blocking(run))]]
          /\ listener' = listener_after_worker(listener, run)
    /\ UNCHANGED <<concVars, fnVars, gateVars, runVars, mockVars, hostVars>>

\* wait_for_shutdown: ctrl-c ends the accept loop
ListenerCtrlC ==
    /\ listener.running
    /\ listener' = [listener EXCEPT !.running = FALSE]
    /\ UNCHANGED <<concVars, conns, fnVars, gateVars, runVars, mockVars, hostVars>>

\* a server that returns as soon as the signal arrived
shutdown_immediate(cs) == TRUE

\* axum::serve(..).with_graceful_shutdown(..): after the signal the server waits for the
\* connection tasks, that is until every request received has its response
shutdown_complete(cs) == \A i \in 1..Len(cs) : cs[i].state = "responded"

\* run_listener: axum::serve returns Ok, block_on and handle_listen return
ListenerReturn ==
    /\ listener # NoListener
    /\ ~listener.running
    /\ pc = "start"
    /\ shutdown_complete(conns)
    /\ Succeed
    /\ UNCHANGED <<concVars, guest_output, cmd, requirements, values, report, harness,
                   history, issued, invoke_base, ops, plan_value, encode_result,
                   send_result, output, logged, mockVars, hostVars, listenVars, fnVars>>

NextListen ==
    \/ ListenerReturn
    \/ ListenerStart
    \/ ListenerAccept
    \/ \E i \in 1..Len(conns) : ListenerHandle(i)
    \/ \E i \in 1..Len(conns) : ListenerWorker(i)
    \/ ListenerCtrlC

SpecListen == InitIdle /\ [][NextListen]_vars

\* the handler task of request i takes its step; within NextListen these are the steps
\* of ListenerHandle(i), whose outcome the request and the listener's state fix
HandlerPolled(i) ==
    /\ i <= Len(conns)
    /\ conns[i].state = "received"
    /\ \E rejects \in BOOLEAN : conns' = [conns EXCEPT ![i] = handler_outcome(@, rejects)]
    /\ UNCHANGED <<concVars, listener, fnVars, gateVars, runVars, mockVars, hostVars>>

\* the runtime polls every task that can run: a received request is handled, a worker
\* that was dispatched finishes, and the server returns once nothing is in flight
ListenFairness ==
    /\ \A i \in 1..MaxConns :
          /\ WF_vars(HandlerPolled(i))
          /\ WF_vars(i <= Len(conns) /\ ListenerWorker(i))
    /\ WF_vars(ListenerReturn)

SpecListenFair == SpecListen /\ ListenFairness

\* the request's signature check fails under the configured secret
SignatureFails(conn) ==
    /\ listener.signature_secret # <<>>
    /\ ~verify_webex_signature(listener.signature_secret[1], conn.headers, conn.body)

Rejected(conn) ==
    /\ conn.state = "responded"
    /\ conn.response.status = 401
    /\ conn.run = NoRun

\* C11, as stated: with a signature secret configured, every request whose signature
\* check fails is answered 401 and ingest_http is never invoked for it.
C11_AnyProviderRejects ==
    \A i \in 1..Len(conns) :
        (conns[i].state # "received" /\ SignatureFails(conns[i])) => Rejected(conns[i])

\* C11: for provider "webex" with a signature secret configured, every request whose
\* signature check fails is answered 401 and ingest_http is never invoked for it.
C11_WebexRejects ==
    \A i \in 1..Len(conns) :
        (/\ conns[i].state # "received"
         /\ listener.provider = "webex"
         /\ SignatureFails(conns[i])) => Rejected(conns[i])

\* a webex request with a digest for another body rejected, one without header too
C11_Witness ==
    /\ listener.provider = "webex"
    /\ listener.signature_secret = Some(<<"s", "1">>)
    /\ Len(conns) = 2
    /\ conns[1].headers # <<>>
    /\ conns[1].body = "b2"
    /\ Rejected(conns[1])
    /\ conns[2].headers = <<>>
    /\ Rejected(conns[2])

\* C13: a dispatched request is answered 200 whenever the module invocation returned a
\* decodable result, whatever status that result carries, and 500 when loading the
\* module, invoking it or decoding its output failed.
C13_ListenerStatus ==
    \A i \in 1..Len(conns) :
        LET c == conns[i]
        IN (c.state = "responded" /\ c.run # NoRun /\ c.run.kind # "panic") =>
              /\ (c.run.kind = "returned" /\ c.run.out # Garbage)
                    => c.response.status = 200
              /\ (c.run.kind \in {"load_error", "invoke_error"} \/ c.run.out = Garbage)
                    => c.response.status = 500

\* a module result with its own status 502 answered 200, a decode failure answered 500
C13_Witness ==
    /\ Len(conns) = 2
    /\ conns[1].run.kind = "returned"
    /\ conns[1].run.out # Garbage
    /\ conns[1].run.out.status = 502
    /\ conns[1].response.status = 200
    /\ conns[2].run.kind = "returned"
    /\ conns[2].run.out = Garbage
    /\ conns[2].response.status = 500

\* the step in which a worker's panic is observed
PanicStep ==
    \E i \in 1..Len(conns) :
        /\ conns[i].run.kind # "panic"
        /\ Len(conns') = Len(conns)
        /\ conns'[i].run.kind = "panic"

\* C14: a panic inside a worker is caught and turned into a 500 answer for that
\* request, and the listener keeps serving.
C14_PanicCaught ==
    /\ [](\A i \in 1..Len(conns) :
            conns[i].run.kind = "panic" =>
                /\ conns[i].state = "responded"
                /\ conns[i].response = [status |-> 500, body |-> "ingest runtime panic"])
    /\ [][PanicStep => listener' = listener]_vars

\* a request accepted after another one's worker panicked, and served
C14_Witness ==
    /\ Len(conns) = 2
    /\ conns[1].run.kind = "panic"
    /\ conns[1].response.status = 500
    /\ conns[2].panics_before = 1
    /\ conns[2].response.status = 200
    /\ listener.running

(***************************************************************************)
(* The webex provider module (messaging-provider-webex/src/lib.rs):        *)
(* render_plan, send_payload, ingest_http.  The answer of the transport    *)
(* capability is an argument; each operation returns its output and the    *)
(* transport calls it made.                                                *)
(***************************************************************************)
PROVIDER_TYPE == "messaging.webex.bot"
DEFAULT_API_BASE == "https://webexapis.com/v1"
DEFAULT_TOKEN_KEY == "WEBEX_BOT_TOKEN"

Err(e) == [ok |-> FALSE, value |-> e]

\* a lookup that yields the empty string for a missing secret
get_secret_string_or_empty(secret_map, key) ==
    IF key \notin DOMAIN secret_map THEN Ok("")
    ELSE IF ~secret_map[key].utf8 THEN Err("secret not valid utf-8")
    ELSE Ok(secret_map[key].s)

\* get_secret_string: the secret as a string, or why it cannot be had
get_secret_string(secret_map, key) ==
    IF key \notin DOMAIN secret_map THEN Err("missing secret: " \o key)
    ELSE IF ~secret_map[key].utf8 THEN Err("secret not valid utf-8")
    ELSE Ok(secret_map[key].s)

\* format_webex_error: the status, and the body text when there is one
format_webex_error(status, body) ==
    IF body = "" THEN "webex returned status " \o ToString(status)
    ELSE "webex returned status " \o ToString(status) \o " body=" \o body

\* what the upstream API, or the mock, may answer
WebexResponses ==
    {Response(200, "message"), Response(200, "not json"), Response(204, ""),
     Response(199, ""), Response(300, ""), Response(404, "nf"), Response(500, ""),
     TransportError}

IsSuccess(status) == ~(status < 200 \/ status >= 300)

\* render_plan / render_plan_error: no capability is used
render_plan(plan_in) ==
    IF ~plan_in.decodable
    THEN [out |-> [ok |-> FALSE, error |-> "invalid render input", summary_text |-> <<>>],
          calls |-> <<>>]
    ELSE [out |-> [ok |-> TRUE, error |-> "",
                   summary_text |->
                       IF plan_in.text # <<>> /\ trim(plan_in.text[1]) # <<>>
                       THEN plan_in.text[1]
                       ELSE <<"w", "e", "b", "e", "x">>],
          calls |-> <<>>]

\* an error result that always asks for a retry
send_payload_error_retryable(message, retryable) ==
    [ok |-> FALSE, message |-> <<message>>, retryable |-> TRUE]

\* fn send_payload_error
send_payload_error(message, retryable) ==
    [ok |-> FALSE, message |-> Some(message), retryable |-> retryable]

send_payload_success == [ok |-> TRUE, message |-> <<>>, retryable |-> FALSE]

\* send_payload: the first destination of the envelope, else the default e-mail
send_destination(send_in) ==
    IF send_in.to # <<>> THEN Some(send_in.to[1])
    ELSE IF send_in.default_to_person_email # <<>>
    THEN Some([id |-> send_in.default_to_person_email[1], kind |-> Some("email")])
    ELSE <<>>

\* send_payload: the body field the destination kind selects, "" for an unsupported kind
destination_field(kind) ==
    CASE kind = "room"               -> "roomId"
      [] kind \in {"person", "user"} -> "toPersonId"
      [] kind \in {"email", ""}      -> "toPersonEmail"
      [] OTHER                       -> ""

\* a send_payload that takes a payload of any provider type
provider_type_unchecked(send_in) == FALSE

\* send_payload: send_in.provider_type != PROVIDER_TYPE
provider_type_mismatch(send_in) == send_in.provider_type # PROVIDER_TYPE

send_payload(send_in, secret_map, resp) ==
    LET fail(message) == [out |-> send_payload_error(message, FALSE), calls |-> <<>>]
        api_base == unwrap_or(send_in.api_base_url, DEFAULT_API_BASE)
        text == IF send_in.text # <<>> /\ trim(send_in.text[1]) # <<>>
                THEN Some(trim(send_in.text[1])) ELSE <<>>
        destination == send_destination(send_in)
        token == get_secret_string(secret_map, DEFAULT_TOKEN_KEY)
    IN IF ~send_in.decodable THEN fail("invalid send_payload input")
       ELSE IF provider_type_mismatch(send_in) THEN fail("provider type mismatch")
       ELSE IF ~send_in.body_b64_ok THEN fail("payload decode failed")
       ELSE IF ~send_in.envelope_ok THEN fail("invalid envelope")
       ELSE IF send_in.attachments # 0 THEN fail("attachments not supported")
       ELSE IF ~send_in.card /\ text = <<>> THEN fail("text required")
       ELSE IF destination = <<>> THEN fail("destination required")
       ELSE IF trim(destination[1].id) = <<>> THEN fail("destination id required")
       ELSE IF destination_field(unwrap_or(destination[1].kind, "email")) = ""
       THEN fail("unsupported destination kind")
       ELSE IF ~token.ok THEN fail(token.value)
       ELSE LET request ==
                    [method |-> unwrap_or(send_in.method, "POST"),
                     url |-> api_base \o "/messages",
                     headers |-> <<<<"Content-Type", "application/json">>,
                                   <<"Authorization", "Bearer " \o token.value>>>>,
                     body |-> [field |-> destination_field(
                                             unwrap_or(destination[1].kind, "email")),
                               dest_id |-> trim(destination[1].id),
                               text |-> text]]
                calls == <<[request |-> request, response |-> resp]>>
            IN IF resp.kind = "error"
               THEN [out |-> send_payload_error("transport error: " \o resp.body, TRUE),
                     calls |-> calls]
               ELSE IF ~IsSuccess(resp.status)
               THEN [out |-> send_payload_error(
                                 format_webex_error(resp.status, resp.body),
                                 resp.status >= 500),
                     calls |-> calls]
               ELSE [out |-> send_payload_success, calls |-> calls]

\* fetch_message_details: GET {api_base}/messages/{id}, then read the message
fetch_message_details(message_id, api_base, token, resp) ==
    LET request == [method |-> "GET",
                    url |-> api_base \o "/messages/" \o message_id,
                    headers |-> <<<<"Authorization", "Bearer " \o token>>>>,
                    body |-> NoValue]
        result ==
            IF resp.kind = "error" THEN Err("transport error: " \o resp.body)
            ELSE IF ~IsSuccess(resp.status)
            THEN Err(format_webex_error(resp.status, resp.body))
            ELSE IF resp.body # "message" THEN Err("invalid message JSON")
            ELSE Ok([text |-> "Hello world", room_id |-> Some("ROOM1")])
    IN [result |-> result, calls |-> <<[request |-> request, response |-> resp]>>]

\* build_webhook_metadata: the entries depend on which arguments are present
build_webhook_metadata(body, room_id, error, status) ==
    LET keys == {"webex.resource", "webex.event", "webex.fetchStatus",
                 "webex.hasAttachments"}
                \cup (IF body.id # <<>> THEN {"webex.messageId"} ELSE {})
                \cup (IF room_id # <<>> THEN {"webex.roomId"} ELSE {})
                \cup (IF error # <<>> THEN {"webex.ingestError"} ELSE {})
    IN [k \in keys |->
           CASE k = "webex.resource"       -> body.resource
             [] k = "webex.event"          -> body.event
             [] k = "webex.fetchStatus"    -> ToString(status)
             [] k = "webex.hasAttachments" -> "false"
             [] k = "webex.messageId"      -> body.id[1]
             [] k = "webex.roomId"         -> room_id[1]
             [] k = "webex.ingestError"    -> error[1]]

build_webhook_envelope(text, session_id, metadata, message_id) ==
    [id |-> IF message_id # <<>> THEN "webex-" \o message_id[1]
            ELSE "webex-ingress-" \o session_id,
     channel |-> "webex", session_id |-> session_id, text |-> Some(text),
     metadata |-> metadata]

\* an outcome that hides the failed fetch
fetch_failed_outcome_hidden(body, error) ==
    [envelope |-> build_webhook_envelope("", unwrap_or(body.room, body.id[1]),
                      build_webhook_metadata(body, body.room, <<>>, 200), body.id),
     status |-> 200, error |-> <<>>]

\* handle_webhook_event: the Err(err) arm of fetch_message_details
fetch_failed_outcome(body, error) ==
    [envelope |-> build_webhook_envelope("", unwrap_or(body.room, body.id[1]),
                      build_webhook_metadata(body, body.room, Some(error), 502), body.id),
     status |-> 502, error |-> Some(error)]

handle_webhook_event(body, secret_map, resp) ==
    IF body.resource = "messages" /\ body.event = "created" /\ body.id # <<>>
    THEN LET token == get_secret_string(secret_map, DEFAULT_TOKEN_KEY)
         IN IF ~token.ok
            THEN [outcome |->
                     [envelope |-> build_webhook_envelope("",
                                       unwrap_or(body.room, body.id[1]),
                                       build_webhook_metadata(body, body.room,
                                           Some(token.value), 500), body.id),
                      status |-> 500, error |-> Some(token.value)],
                  calls |-> <<>>]
            ELSE LET fetched == fetch_message_details(body.id[1], DEFAULT_API_BASE,
                                                      token.value, resp)
                 IN IF ~fetched.result.ok
                    THEN [outcome |-> fetch_failed_outcome(body, fetched.result.value),
                          calls |-> fetched.calls]
                    ELSE LET details == fetched.result.value
                             room == IF details.room_id # <<>> THEN details.room_id
                                     ELSE body.room
                         IN [outcome |->
                                [envelope |-> build_webhook_envelope(details.text,
                                                  unwrap_or(room, body.id[1]),
                                                  build_webhook_metadata(body, room,
                                                      <<>>, 200), body.id),
                                 status |-> 200, error |-> <<>>],
                             calls |-> fetched.calls]
    ELSE [outcome |->
             [envelope |-> build_webhook_envelope(body.text,
                               unwrap_or(body.room, unwrap_or(body.id, "webex")),
                               build_webhook_metadata(body, body.room, <<>>, 200),
                               body.id),
              status |-> 200, error |-> <<>>],
          calls |-> <<>>]

\* http_out_error: no events
http_out_error(status, message) ==
    [status |-> status, events |-> <<>>, body |-> [message |-> message]]

\* serde_json::from_slice(&body_bytes).unwrap_or(Value::Null): every get on it is None
NullBody == [json |-> FALSE, resource |-> "", event |-> "", id |-> <<>>, room |-> <<>>,
             text |-> ""]

ingest_http(http_in, secret_map, resp) ==
    IF ~http_in.decodable
    THEN [out |-> http_out_error(400, "invalid http input"), calls |-> <<>>]
    ELSE IF ~http_in.body_b64_ok
    THEN [out |-> http_out_error(400, "invalid body encoding"), calls |-> <<>>]
    ELSE LET body_val == IF http_in.body.json THEN http_in.body ELSE NullBody
             handled == handle_webhook_event(body_val, secret_map, resp)
         IN [out |-> [status |-> handled.outcome.status,
                      events |-> <<handled.outcome.envelope>>,
                      body |-> [ok |-> handled.outcome.error = <<>>,
                                error |-> handled.outcome.error]],
             calls |-> handled.calls]

(***************************************************************************)
(* SpecWebex: one send run (render_plan, then send_payload) or one         *)
(* ingest_http call of the webex module                                    *)
(***************************************************************************)
\* the six arms of invoke's match
SupportedOps == {"send", "reply", "ingest_http", "render_plan", "encode", "send_payload"}

\* a match that compares the operation name without regard to case
invoke_arm_ignoring_case(op) ==
    IF op \in SupportedOps THEN op
    ELSE IF op = "SEND_PAYLOAD" THEN "send_payload"
    ELSE "other"

\* invoke: match op.as_str(), the arm taken
invoke_arm(op) == IF op \in SupportedOps THEN op ELSE "other"

\* invoke's last arm
unsupported_op(other) ==
    [out |-> [ok |-> FALSE, error |-> "unsupported op: " \o other],
     calls |-> <<>>, gets |-> <<>>]

\* the secrets an operation asked the store for: send_payload looks the token up once
\* every earlier check passed, ingest_http for a message-created event with an id
send_payload_gets(r, secret_map) ==
    LET token == get_secret_string(secret_map, DEFAULT_TOKEN_KEY)
    IN IF r.calls # <<>> \/ (~token.ok /\ r.out.message = Some(token.value))
       THEN <<DEFAULT_TOKEN_KEY>> ELSE <<>>

ingest_http_gets(http_in) ==
    IF /\ http_in.decodable
       /\ http_in.body_b64_ok
       /\ http_in.body.json
       /\ http_in.body.resource = "messages"
       /\ http_in.body.event = "created"
       /\ http_in.body.id # <<>>
    THEN <<DEFAULT_TOKEN_KEY>> ELSE <<>>

\* Guest::invoke for render_plan, send_payload, ingest_http and any unsupported name
invoke(op, input, secret_map, resp) ==
    LET arm == invoke_arm(op)
    IN CASE arm = "render_plan" ->
                LET r == render_plan(input.plan_in)
                IN [out |-> r.out, calls |-> r.calls, gets |-> <<>>]
         [] arm = "send_payload" ->
                LET r == send_payload(input.send_in, secret_map, resp)
                IN [out |-> r.out, calls |-> r.calls,
                    gets |-> send_payload_gets(r, secret_map)]
         [] arm = "ingest_http" ->
                LET r == ingest_http(input.http_in, secret_map, resp)
                IN [out |-> r.out, calls |-> r.calls,
                    gets |-> ingest_http_gets(input.http_in)]
         [] arm = "other" -> unsupported_op(op)

WebexSecrets ==
    {<<>>} \cup [{DEFAULT_TOKEN_KEY} -> {[utf8 |-> TRUE, s |-> "token"],
                                         [utf8 |-> FALSE, s |-> ""]}]

SendTexts == {<<>>, Some(<<" ">>), Some(<<"h", "i">>)}

Destinations ==
    [id : {<<" ">>, <<"d">>},
     kind : {<<>>, Some("room"), Some("person"), Some(""), Some("fax")}]

SendPayloadIns ==
    [decodable : BOOLEAN, provider_type : {PROVIDER_TYPE, "messaging.slack.bot"},
     api_base_url : {<<>>, Some("https://api.test")},
     default_to_person_email : {<<>>, Some(<<"e">>)},
     method : {<<>>}, body_b64_ok : BOOLEAN, envelope_ok : BOOLEAN,
     attachments : {0, 1}, text : SendTexts, card : BOOLEAN,
     to : {<<>>} \cup {<<d>> : d \in Destinations}]

WebhookBodies ==
    {[json |-> FALSE, resource |-> "", event |-> "", id |-> <<>>, room |-> <<>>,
      text |-> ""]}
    \cup [json : {TRUE}, resource : {"messages", "memberships"}, event : {"created"},
          id : {<<>>, Some("MSG123")}, room : {<<>>, Some("ROOM0")}, text : {"", "hi"}]

HttpIns == [decodable : BOOLEAN, body_b64_ok : BOOLEAN, body : WebhookBodies]

WebexSendInput ==
    /\ fn_in = NoValue
    /\ \E plan_decodable \in BOOLEAN, send_in \in SendPayloadIns, m \in WebexSecrets :
          fn_in' = [kind |-> "send",
                    plan_in |-> [decodable |-> plan_decodable, text |-> send_in.text],
                    send_in |-> send_in, secrets |-> m]
    /\ UNCHANGED <<concVars, fn_out, fn_calls, gateVars, runVars, mockVars, hostVars, listenVars>>

WebexIngestInput ==
    /\ fn_in = NoValue
    /\ \E http_in \in HttpIns, m \in WebexSecrets :
          fn_in' = [kind |-> "ingest", http_in |-> http_in, secrets |-> m]
    /\ UNCHANGED <<concVars, fn_out, fn_calls, gateVars, runVars, mockVars, hostVars, listenVars>>

\* invoke("render_plan", ..)
WebexRenderPlan ==
    /\ fn_in # NoValue
    /\ fn_in.kind = "send"
    /\ fn_out = NoValue
    /\ LET r == render_plan(fn_in.plan_in)
       IN /\ fn_out' = [render |-> r.out, send |-> NoValue]
          /\ fn_calls' = fn_calls \o r.calls
    /\ UNCHANGED <<concVars, fn_in, gateVars, runVars, mockVars, hostVars, listenVars>>

\* invoke("send_payload", ..), reached only after a render_plan that reported ok
WebexSendPayload ==
    /\ fn_in # NoValue
    /\ fn_in.kind = "send"
    /\ fn_out # NoValue
    /\ fn_out.render.ok
    /\ fn_out.send = NoValue
    /\ \E resp \in WebexResponses :
          LET r == send_payload(fn_in.send_in, fn_in.secrets, resp)
          IN /\ fn_out' = [fn_out EXCEPT !.send = r.out]
             /\ fn_calls' = fn_calls \o r.calls
    /\ UNCHANGED <<concVars, fn_in, gateVars, runVars, mockVars, hostVars, listenVars>>

\* invoke("ingest_http", ..)
WebexIngestHttp ==
    /\ fn_in # NoValue
    /\ fn_in.kind = "ingest"
    /\ fn_out = NoValue
    /\ \E resp \in WebexResponses :
          LET r == ingest_http(fn_in.http_in, fn_in.secrets, resp)
          IN /\ fn_out' = [ingest |-> r.out]
             /\ fn_calls' = fn_calls \o r.calls
    /\ UNCHANGED <<concVars, fn_in, gateVars, runVars, mockVars, hostVars, listenVars>>

\* operation names a host may pass to invoke: three of the supported ones and names
\* outside the set (wrong case, trailing blank, empty, unknown)
InvokeOps == {"render_plan", "send_payload", "ingest_http",
              "SEND_PAYLOAD", "send ", "", "unknown"}

\* send_payload inputs that pass the decoding checks
InvokeSendIns ==
    {i \in SendPayloadIns :
        /\ i.decodable
        /\ i.provider_type = PROVIDER_TYPE
        /\ i.body_b64_ok
        /\ i.envelope_ok
        /\ i.attachments = 0
        /\ ~i.card
        /\ i.api_base_url = <<>>}

InvokeHttpIns ==
    {h \in HttpIns : h.decodable /\ h.body_b64_ok /\ h.body.json /\ h.body.id # <<>>}

WebexInvokeInput ==
    /\ fn_in = NoValue
    /\ \E op \in InvokeOps, send_in \in InvokeSendIns, m \in WebexSecrets :
          \E http_in \in IF op = "ingest_http" THEN InvokeHttpIns
                         ELSE {CHOOSE h \in InvokeHttpIns : TRUE} :
              fn_in' = [kind |-> "invoke", op |-> op,
                        plan_in |-> [decodable |-> TRUE, text |-> send_in.text],
                        send_in |-> send_in, http_in |-> http_in, secrets |-> m]
    /\ UNCHANGED <<concVars, fn_out, fn_calls, gateVars, runVars, mockVars, hostVars, listenVars>>

\* Guest::invoke(op, input_json)
WebexInvoke ==
    /\ fn_in # NoValue
    /\ fn_in.kind = "invoke"
    /\ fn_out = NoValue
    /\ \E resp \in WebexResponses :
          LET r == invoke(fn_in.op, fn_in, fn_in.secrets, resp)
          IN /\ fn_out' = [invoke |-> r.out, secret_gets |-> r.gets]
             /\ fn_calls' = fn_calls \o r.calls
    /\ UNCHANGED <<concVars, fn_in, gateVars, runVars, mockVars, hostVars, listenVars>>

\* WasmHarness::provider_type of the harness loaded for webex: the type the module
\* declares
harness_provider_type == PROVIDER_TYPE

\* handle_send: SendPayloadInV1 {provider_type: harness.provider_type(), payload, ..}
handle_send_in(provider_type, payload) ==
    [payload EXCEPT !.provider_type = provider_type]

\* decodable send_payload inputs of either provider type, with a good or a bad payload
TypedSendIns ==
    {i \in SendPayloadIns :
        /\ i.decodable
        /\ i.attachments = 0
        /\ ~i.card
        /\ i.api_base_url = <<>>}

\* who builds the send_payload input: handle_send, or another host of the module
SendBuilders == {"handle_send", "other host"}

WebexTypedSendInput ==
    /\ fn_in = NoValue
    /\ \E by \in SendBuilders, i \in TypedSendIns, m \in WebexSecrets :
          /\ (by = "handle_send") => (i.body_b64_ok /\ i.envelope_ok)
          /\ fn_in' = [kind |-> "typed_send", by |-> by, op |-> "send_payload",
                       send_in |-> IF by = "handle_send"
                                   THEN handle_send_in(harness_provider_type, i)
                                   ELSE i,
                       secrets |-> m]
    /\ UNCHANGED <<concVars, fn_out, fn_calls, gateVars, runVars, mockVars, hostVars, listenVars>>

\* harness.invoke("send_payload", send_input, ..) on that input
WebexTypedSend ==
    /\ fn_in # NoValue
    /\ fn_in.kind = "typed_send"
    /\ fn_out = NoValue
    /\ \E resp \in WebexResponses :
          LET r == invoke(fn_in.op, fn_in, fn_in.secrets, resp)
          IN /\ fn_out' = [invoke |-> r.out, secret_gets |-> r.gets]
             /\ fn_calls' = fn_calls \o r.calls
    /\ UNCHANGED <<concVars, fn_in, gateVars, runVars, mockVars, hostVars, listenVars>>

NextWebex ==
    \/ WebexTypedSendInput
    \/ WebexTypedSend
    \/ WebexInvokeInput
    \/ WebexInvoke
    \/ WebexSendInput
    \/ WebexIngestInput
    \/ WebexRenderPlan
    \/ WebexSendPayload
    \/ WebexIngestHttp

SpecWebex == InitIdle /\ [][NextWebex]_vars

IngestDone == fn_in # NoValue /\ fn_in.kind = "ingest" /\ fn_out # NoValue

\* the request is a message-created event whose upstream fetch got a non-2xx answer
FetchAnsweredNon2xx ==
    /\ fn_in.http_in.decodable
    /\ fn_in.http_in.body_b64_ok
    /\ fn_in.http_in.body.json
    /\ fn_in.http_in.body.resource = "messages"
    /\ fn_in.http_in.body.event = "created"
    /\ fn_in.http_in.body.id # <<>>
    /\ Len(fn_calls) = 1
    /\ fn_calls[1].response.kind = "response"
    /\ (fn_calls[1].response.status < 200 \/ fn_calls[1].response.status > 299)

\* C19: for each decodable inbound request ingest_http emits exactly one envelope; for a
\* message-created event whose upstream fetch is answered non-2xx that envelope has
\* empty text and a webex.ingestError metadata entry, the status is 502 and the
\* normalized body has ok false.
C19_IngestOneEnvelope ==
    IngestDone =>
        /\ (fn_in.http_in.decodable /\ fn_in.http_in.body_b64_ok)
              => Len(fn_out.ingest.events) = 1
        /\ FetchAnsweredNon2xx =>
              /\ Len(fn_out.ingest.events) = 1
              /\ fn_out.ingest.events[1].text = <<"">>
              /\ "webex.ingestError" \in DOMAIN fn_out.ingest.events[1].metadata
              /\ fn_out.ingest.status = 502
              /\ fn_out.ingest.body.ok = FALSE

\* the 404 of the test: one envelope, 502, the status named in the error entry
C19_Witness ==
    /\ IngestDone
    /\ FetchAnsweredNon2xx
    /\ fn_calls[1].response.status = 404
    /\ fn_calls[1].request.url = "https://webexapis.com/v1/messages/MSG123"
    /\ fn_out.ingest.status = 502
    /\ Len(fn_out.ingest.events) = 1
    /\ fn_out.ingest.events[1].metadata["webex.ingestError"]
          = "webex returned status 404 body=nf"

SendDone ==
    /\ fn_in # NoValue
    /\ fn_in.kind = "send"
    /\ fn_out # NoValue
    /\ fn_out.send # NoValue

\* one of the pre-checks of send_payload fails on the input
PreCheckFails ==
    LET i == fn_in.send_in
        has_text == i.text # <<>> /\ i.text[1] # <<" ">>
        dest == IF i.to # <<>> THEN <<i.to[1]>>
                ELSE IF i.default_to_person_email # <<>>
                THEN <<[id |-> i.default_to_person_email[1], kind |-> <<"email">>]>>
                ELSE <<>>
    IN \/ ~i.decodable
       \/ i.provider_type # "messaging.webex.bot"
       \/ ~i.body_b64_ok
       \/ ~i.envelope_ok
       \/ i.attachments > 0
       \/ (~has_text /\ ~i.card)
       \/ dest = <<>>
       \/ dest[1].id = <<" ">>
       \/ dest[1].kind = <<"fax">>
       \/ "WEBEX_BOT_TOKEN" \notin DOMAIN fn_in.secrets

\* C20: render_plan makes no transport call; a run whose send_payload reports ok true
\* made exactly one, to {api_base}/messages with Authorization "Bearer " + token; no
\* transport call is made when a pre-check fails.
C20_OneCallPerSend ==
    /\ (fn_in # NoValue /\ fn_in.kind = "send" /\ fn_out # NoValue
          /\ fn_out.send = NoValue) => fn_calls = <<>>
    /\ (SendDone /\ fn_out.send.ok) =>
          /\ Len(fn_calls) = 1
          /\ fn_calls[1].request.url \in {"https://webexapis.com/v1/messages",
                                          "https://api.test/messages"}
          /\ (fn_in.send_in.api_base_url = <<>>)
                = (fn_calls[1].request.url = "https://webexapis.com/v1/messages")
          /\ \E h \in 1..Len(fn_calls[1].request.headers) :
                fn_calls[1].request.headers[h] = <<"Authorization", "Bearer token">>
    /\ (SendDone /\ PreCheckFails) =>
          /\ fn_calls = <<>>
          /\ ~fn_out.send.ok

\* an ok send to a custom api base
C20_Witness ==
    /\ SendDone
    /\ fn_out.send.ok
    /\ Len(fn_calls) = 1
    /\ fn_calls[1].request.url = "https://api.test/messages"
    /\ fn_calls[1].response.status = 204

TypedSendDone == fn_in # NoValue /\ fn_in.kind = "typed_send" /\ fn_out # NoValue

Contains(s, m) ==
    \E i \in 1..(Len(s) - Len(m) + 1) : SubSeq(s, i, i + Len(m) - 1) = m

\* the error of a run whose send_payload reported a failure carries the module's message
SendMessagePropagated ==
    (send_result # NoValue /\ ~send_result.ok /\ send_result.message # None) =>
        /\ pc = "failed"
        /\ err.kind = "ProviderOp"
        /\ Contains(err.msg, send_result.message)

\* the same for render_plan
RenderMessagePropagated ==
    (plan_value # NoValue /\ plan_value.ok = "false") =>
        /\ pc = "failed"
        /\ err.kind = "ProviderOp"
        /\ Contains(err.msg, plan_value.error)

\* C32: a failure the module reports (ok false from render_plan or send_payload) reaches
\* the caller with the module's own message: the error of the run contains it.
C32_ModuleMessagePropagated == SendMessagePropagated /\ RenderMessagePropagated

(***************************************************************************)
(* SpecWire: the two wirings of the transport import (harness/mod.rs):     *)
(* greentic:http/http-client@1.1.0 hands its arguments to the host send,   *)
(* greentic:http/client@1.1.0 converts them with the alias_* functions     *)
(***************************************************************************)
Wires == {"greentic:http/http-client@1.1.0", "greentic:http/client@1.1.0"}

WireHeaderLists ==
    {<<>>, <<<<"Authorization", "Bearer t">>, <<"X-Trace", "1">>>>,
     <<<<"X-Trace", "1">>, <<"Authorization", "Bearer t">>>>}

WireRequests ==
    [method : {"GET", "POST"}, url : {"https://api/messages"},
     headers : WireHeaderLists, body : {<<>>, Some("b")}]

WireOptions ==
    {<<>>} \cup {Some(o) : o \in [timeout_ms : {<<>>, Some(5)},
                                  allow_insecure : BOOLEAN,
                                  follow_redirects : {TRUE}]}

SampleTenantCtx ==
    [env |-> "dev", tenant |-> "t", tenant_id |-> "t1", team |-> Some("a"),
     team_id |-> <<>>, user |-> Some("u"), user_id |-> <<>>, i18n_id |-> <<>>,
     trace_id |-> Some("tr"), correlation_id |-> <<>>, attributes |-> <<>>,
     session_id |-> Some("s"), flow_id |-> <<>>, node_id |-> <<>>,
     provider_id |-> Some("p"), deadline_ms |-> <<>>, attempt |-> 1,
     idempotency_key |-> <<>>, impersonation |-> <<>>]

WireTenantCtxs == {<<>>, Some(SampleTenantCtx)}

WireHandlerResults ==
    {Ok(r) : r \in [status : {200, 404},
                    headers : {<<>>, <<<<"Content-Type", "application/json">>>>},
                    body : {<<>>, Some("m1")}]}
    \cup {Err([code |-> "network", message |-> "unreachable"])}

\* Option::map
option_map(opt, F(_)) == IF opt = <<>> THEN <<>> ELSE Some(F(opt[1]))

alias_request_to_host(req) ==
    [method |-> req.method, url |-> req.url, headers |-> req.headers, body |-> req.body]

alias_request_options_to_host(opts) ==
    [timeout_ms |-> opts.timeout_ms, allow_insecure |-> opts.allow_insecure,
     follow_redirects |-> opts.follow_redirects]

alias_tenant_ctx_to_host(ctx) ==
    [env |-> ctx.env, tenant |-> ctx.tenant, tenant_id |-> ctx.tenant_id,
     team |-> ctx.team, team_id |-> ctx.team_id, user |-> ctx.user,
     user_id |-> ctx.user_id, i18n_id |-> ctx.i18n_id, trace_id |-> ctx.trace_id,
     correlation_id |-> ctx.correlation_id, attributes |-> ctx.attributes,
     session_id |-> ctx.session_id, flow_id |-> ctx.flow_id, node_id |-> ctx.node_id,
     provider_id |-> ctx.provider_id, deadline_ms |-> ctx.deadline_ms,
     attempt |-> ctx.attempt, idempotency_key |-> ctx.idempotency_key,
     impersonation |-> ctx.impersonation]

\* a conversion that loses the response headers
alias_response_without_headers(resp) ==
    [status |-> resp.status, headers |-> <<>>, body |-> resp.body]

alias_response_from_host(resp) ==
    [status |-> resp.status, headers |-> resp.headers, body |-> resp.body]

alias_error_from_host(e) == [code |-> e.code, message |-> e.message]

\* add_http_client_http_client_world: host.send(req, opts, ctx), result as is
wire_http_client(req, opts, ctx, answer) ==
    [host_req |-> req, host_opts |-> opts, host_ctx |-> ctx, result |-> answer]

\* add_http_client_client_world: arguments and result converted field by field
wire_client(req, opts, ctx, answer) ==
    [host_req |-> alias_request_to_host(req),
     host_opts |-> option_map(opts, alias_request_options_to_host),
     host_ctx |-> option_map(ctx, alias_tenant_ctx_to_host),
     result |-> IF answer.ok THEN Ok(alias_response_from_host(answer.value))
                ELSE Err(alias_error_from_host(answer.value))]

\* a guest issues a request through one of the two imports
WireInput ==
    /\ fn_in = NoValue
    /\ \E wire \in Wires, req \in WireRequests, opts \in WireOptions,
          ctx \in WireTenantCtxs, answer \in WireHandlerResults :
          fn_in' = [wire |-> wire, req |-> req, opts |-> opts, ctx |-> ctx,
                    answer |-> answer]
    /\ UNCHANGED <<concVars, fn_out, fn_calls, gateVars, runVars, mockVars, hostVars,
                   listenVars>>

\* the import's closure: convert, host.send (which records the request), convert back
WireSend ==
    /\ fn_in # NoValue
    /\ fn_out = NoValue
    /\ LET r == IF fn_in.wire = "greentic:http/client@1.1.0"
                THEN wire_client(fn_in.req, fn_in.opts, fn_in.ctx, fn_in.answer)
                ELSE wire_http_client(fn_in.req, fn_in.opts, fn_in.ctx, fn_in.answer)
       IN /\ fn_out' = [fn |-> "wire_send", host_req |-> r.host_req,
                        host_opts |-> r.host_opts, host_ctx |-> r.host_ctx,
                        result |-> r.result]
          /\ last_request' = recorded_request(r.host_req,
                                 [kind |-> IF fn_in.answer.ok THEN "response" ELSE "error"],
                                 last_request)
    /\ UNCHANGED <<concVars, fn_in, fn_calls, http_handler, guest_results, secrets,
                   cap_log, gateVars, runVars, mockVars, listenVars>>

NextWire == WireInput \/ WireSend

SpecWire == InitIdle /\ [][NextWire]_vars

WireDone == fn_out # NoValue /\ fn_out.fn = "wire_send"

\* C21: through either import the host send receives the request with the same method,
\* url, ordered headers and optional body, records it the same way, and the caller gets
\* the response (status, headers, body) or the error (code, message) field for field;
\* absent options and tenant context stay absent.
C21_WiresAgree ==
    WireDone =>
        /\ DOMAIN fn_out.host_req = {"method", "url", "headers", "body"}
        /\ fn_out.host_req.method = fn_in.req.method
        /\ fn_out.host_req.url = fn_in.req.url
        /\ fn_out.host_req.headers = fn_in.req.headers
        /\ fn_out.host_req.body = fn_in.req.body
        /\ last_request = fn_out.host_req
        /\ fn_out.result.ok = fn_in.answer.ok
        /\ fn_in.answer.ok =>
              /\ fn_out.result.value.status = fn_in.answer.value.status
              /\ fn_out.result.value.headers = fn_in.answer.value.headers
              /\ fn_out.result.value.body = fn_in.answer.value.body
        /\ ~fn_in.answer.ok =>
              /\ fn_out.result.value.code = fn_in.answer.value.code
              /\ fn_out.result.value.message = fn_in.answer.value.message
        /\ (fn_in.opts = <<>>) = (fn_out.host_opts = <<>>)
        /\ (fn_in.ctx = <<>>) = (fn_out.host_ctx = <<>>)
        /\ fn_in.opts # <<>> => fn_out.host_opts[1].timeout_ms = fn_in.opts[1].timeout_ms
        /\ fn_in.ctx # <<>> => fn_out.host_ctx[1].trace_id = fn_in.ctx[1].trace_id

\* through the converting import: two ordered headers, a body, a response with headers,
\* no options and no tenant context
C21_Witness ==
    /\ WireDone
    /\ fn_in.wire = "greentic:http/client@1.1.0"
    /\ Len(fn_in.req.headers) = 2
    /\ fn_in.req.body # <<>>
    /\ fn_in.answer.ok
    /\ fn_in.answer.value.headers # <<>>
    /\ fn_out.result.value.headers = fn_in.answer.value.headers
    /\ fn_in.opts = <<>>
    /\ fn_out.host_opts = <<>>
    /\ fn_out.host_ctx = <<>>

(***************************************************************************)
(* SpecExit: the process exit code (main.rs main, CliError::exit_code,     *)
(* map_invoke_error) over every CliError variant and every invoke result   *)
(***************************************************************************)
CliErrorKinds ==
    {"RequirementsMissing", "RequirementsParse", "ValuesLoad", "HttpInput", "HttpOutput",
     "CardFile", "CardParse", "Validation", "WasmLoad", "ProviderOp", "Webhook",
     "WebhookUnsupported", "Network", "Listen"}

\* fn main: the exit code of run's result
main_exit(result) == IF result.ok THEN 0 ELSE ExitCode(result.value.kind)

\* what run returns: Ok, an error built directly, or an invoke error mapped by
\* map_invoke_error
RunResults ==
    {[cause |-> "", result |-> Ok(NoValue)]}
    \cup {[cause |-> "", result |-> Err(CliError(k, "failure"))] : k \in CliErrorKinds}
    \cup {[cause |-> e, result |-> Err(map_invoke_error(e))] : e \in InvokeErrors}

\* one run of the process: run's result, then process::exit(exit_code)
ProcessExit ==
    /\ Len(fn_calls) < MaxExits
    /\ \E r \in RunResults :
          fn_calls' = Append(fn_calls, [cause |-> r.cause, ok |-> r.result.ok,
                                        kind |-> IF r.result.ok THEN ""
                                                 ELSE r.result.value.kind,
                                        code |-> main_exit(r.result)])
    /\ UNCHANGED <<concVars, fn_in, fn_out, gateVars, runVars, mockVars, hostVars,
                   listenVars>>

NextExit == ProcessExit

SpecExit == InitIdle /\ [][NextExit]_vars

ValidationKinds == {"RequirementsMissing", "RequirementsParse", "Validation"}
FixtureKinds == {"ValuesLoad", "HttpInput", "CardFile", "CardParse"}
ExitClasses == {ValidationKinds, FixtureKinds, {"WasmLoad"}, {"ProviderOp"}, {"Network"},
                {"Listen"}}

\* C22: success exits 0 and every CliError exits non-zero; validation is 2, fixture load 1,
\* module load 3, provider operation 4, network 5, listener 7, pairwise distinct; an
\* invoke error that is a transport error exits as Network (5), any other as ProviderOp (4).
C22_ExitCodes ==
    /\ \A i \in 1..Len(fn_calls) :
          LET c == fn_calls[i]
          IN /\ c.ok => c.code = 0
             /\ ~c.ok => c.code # 0
             /\ c.kind \in ValidationKinds => c.code = 2
             /\ c.kind \in FixtureKinds => c.code = 1
             /\ c.kind = "WasmLoad" => c.code = 3
             /\ c.kind = "ProviderOp" => c.code = 4
             /\ c.kind = "Network" => c.code = 5
             /\ c.kind = "Listen" => c.code = 7
             /\ c.cause = "http_client_error" => c.kind = "Network" /\ c.code = 5
             /\ c.cause \in InvokeErrors \ {"http_client_error"} =>
                   c.kind = "ProviderOp" /\ c.code = 4
    /\ \A i, j \in 1..Len(fn_calls) :
          (\E A, B \in ExitClasses :
              A # B /\ fn_calls[i].kind \in A /\ fn_calls[j].kind \in B)
          => fn_calls[i].code # fn_calls[j].code

\* two exits in one behaviour: a transport error from an invoke, then any other invoke
\* error
C22_Witness ==
    /\ Len(fn_calls) = 2
    /\ fn_calls[1].cause = "http_client_error"
    /\ fn_calls[1].code = 5
    /\ fn_calls[2].cause = "trap"
    /\ fn_calls[2].code = 4

(***************************************************************************)
(* The operation set of the Webex module (SpecWebex)                       *)
(***************************************************************************)
InvokeDone == fn_in # NoValue /\ fn_in.kind = "invoke" /\ fn_out # NoValue

\* C23: an operation name outside send, reply, ingest_http, render_plan, encode and
\* send_payload yields one result with ok false and an "unsupported op" error, and the
\* module makes no secret lookup and no transport call for it.
C23_UnsupportedOp ==
    (/\ InvokeDone
     /\ fn_in.op \notin {"send", "reply", "ingest_http", "render_plan", "encode",
                         "send_payload"})
    => /\ fn_out.invoke = [ok |-> FALSE, error |-> "unsupported op: " \o fn_in.op]
       /\ fn_out.secret_gets = <<>>
       /\ fn_calls = <<>>

\* a supported name in the wrong case, with an input and a token that would let
\* send_payload call the API
C23_Witness ==
    /\ InvokeDone
    /\ fn_in.op = "SEND_PAYLOAD"
    /\ DEFAULT_TOKEN_KEY \in DOMAIN fn_in.secrets
    /\ fn_in.secrets[DEFAULT_TOKEN_KEY].utf8
    /\ fn_in.send_in.text = Some(<<"h", "i">>)
    /\ fn_in.send_in.to # <<>>
    /\ fn_in.send_in.to[1].kind = Some("room")
    /\ ~fn_out.invoke.ok

(***************************************************************************)
(* Module load failure (Spec)                                              *)
(***************************************************************************)
\* C24: when WasmHarness::new fails in send or ingress the command fails with WasmLoad
\* (exit 3) and no call history was created, no capability wired and no operation invoked.
C24_LoadFailureFirst ==
    (pc = "failed" /\ err.kind = "WasmLoad")
    => /\ exit_code = 3
       /\ cmd \in {"send", "ingress"}
       /\ ~harness
       /\ ~history.created
       /\ history.calls = <<>>
       /\ issued = <<>>
       /\ ops = <<>>

C24_Witness == pc = "failed" /\ err.kind = "WasmLoad" /\ cmd = "ingress" /\ exit_code = 3

(***************************************************************************)
(* SpecRunOrListen: one process, either a command run (Next) or the        *)
(* listener's server (NextListen)                                          *)
(***************************************************************************)
NextRunOrListen ==
    \/ /\ listener = NoListener
       /\ Next
    \/ /\ pc = "start"
       /\ NextListen

SpecRunOrListen == InitIdle /\ [][NextRunOrListen]_vars

LastOp == ops[Len(ops)]

\* C25: when the bytes returned by render_plan, send_payload or ingest_http cannot be
\* decoded the command fails with ProviderOp (exit 4) and no later pipeline step has run;
\* in the listener the request is answered 500 with the decode error.
C25_DecodeError ==
    /\ guest_output = Garbage =>
          /\ pc = "failed"
          /\ err.kind = "ProviderOp"
          /\ exit_code = 4
          /\ output = NoValue
          /\ LastOp \in {"render_plan", "send_payload", "ingest_http"}
          /\ LastOp = "render_plan" =>
                /\ ops = <<"render_plan">>
                /\ plan_value = NoValue
                /\ encode_result = NoValue
                /\ send_result = NoValue
          /\ LastOp = "send_payload" => send_result = NoValue
          /\ LastOp = "ingest_http" => ops = <<"ingest_http">>
    /\ \A i \in 1..Len(conns) :
          (/\ conns[i].state = "responded"
           /\ conns[i].run # NoRun
           /\ conns[i].run.kind = "returned"
           /\ conns[i].run.out = Garbage)
          => conns[i].response = [status |-> 500, body |-> "decode failed"]

\* send_payload returned undecodable bytes after a render_plan that was decoded
C25_Witness ==
    /\ guest_output = Garbage
    /\ ops = <<"render_plan", "encode", "send_payload">>
    /\ plan_value # NoValue
    /\ pc = "failed"

\* the listener answered a request whose module output was undecodable
C25_WitnessListener ==
    /\ Len(conns) >= 1
    /\ conns[1].state = "responded"
    /\ conns[1].run.kind = "returned"
    /\ conns[1].run.out = Garbage
    /\ conns[1].response.status = 500

(***************************************************************************)
(* Listener shutdown (SpecListenFair)                                      *)
(***************************************************************************)
Interrupted == listener # NoListener /\ ~listener.running

InFlight(c) == c.state \in {"received", "dispatched"}

ListenerReturned == Interrupted /\ pc = "done"

ModuleRunning == \E i \in 1..Len(conns) : conns[i].state = "dispatched"

ascii_upper(c) ==
    CASE c = "p" -> "P"
      [] c = "o" -> "O"
      [] c = "s" -> "S"
      [] c = "t" -> "T"
      [] c = "e" -> "E"
      [] OTHER   -> c

to_ascii_uppercase(s) == [i \in 1..Len(s) |-> ascii_upper(s[i])]

\* str::find: the first position of the character, if any
find(chars, c) ==
    IF \E i \in 1..Len(chars) : chars[i] = c
    THEN Some(CHOOSE i \in 1..Len(chars) :
                 chars[i] = c /\ \A j \in 1..(i - 1) : chars[j] # c)
    ELSE <<>>

\* a parse that keeps the name as it was typed
parse_header_as_typed(raw) ==
    LET separator == IF find(raw, ":") # <<>> THEN find(raw, ":") ELSE find(raw, "=")
    IN IF separator # <<>> /\ separator[1] < Len(raw)
       THEN Ok([name |-> SubSeq(raw, 1, separator[1] - 1),
                value |-> SubSeq(raw, separator[1] + 1, Len(raw))])
       ELSE Err(CliError("Listen", "invalid header"))

\* fn parse_header: split at the first ':', else at the first '='; the separator must
\* not be the last character
parse_header(raw) ==
    LET separator == IF find(raw, ":") # <<>> THEN find(raw, ":") ELSE find(raw, "=")
    IN IF separator # <<>> /\ separator[1] < Len(raw)
       THEN Ok([name |-> to_ascii_lowercase(trim(SubSeq(raw, 1, separator[1] - 1))),
                value |-> trim(SubSeq(raw, separator[1] + 1, Len(raw)))])
       ELSE Err(CliError("Listen", "invalid header"))

\* String::from_utf8_lossy(&bytes): invalid sequences become U+FFFD
from_utf8_lossy(file) == IF file.utf8 THEN file.text ELSE "\\u{FFFD}"

\* fn resolve_body
resolve_body(body, body_file) ==
    CASE body # <<>> /\ body_file = <<>> -> Ok(Some(body[1]))
      [] body = <<>> /\ body_file # <<>> ->
            IF ~body_file[1].readable
            THEN Err(CliError("HttpInput", "http input load failed"))
            ELSE Ok(Some(from_utf8_lossy(body_file[1])))
      [] body # <<>> /\ body_file # <<>> ->
            Err(CliError("Listen", "--body and --body-file cannot be provided together"))
      [] OTHER -> Ok(<<>>)

\* HashMap::insert
map_insert(m, k, v) == [x \in DOMAIN m \cup {k} |-> IF x = k THEN v ELSE m[x]]

\* build_http_in_payload's loop: parse each header in order, stop at the first error
RECURSIVE header_map_from(_, _)
header_map_from(headers, header_map) ==
    IF headers = <<>> THEN Ok(header_map)
    ELSE LET parsed == parse_header(Head(headers))
         IN IF ~parsed.ok THEN parsed
            ELSE header_map_from(Tail(headers),
                                 map_insert(header_map, parsed.value.name,
                                            parsed.value.value))

\* fn build_http_in_payload
build_http_in_payload(method, path, query, body, body_file, headers) ==
    LET resolved_body == resolve_body(body, body_file)
        header_map == header_map_from(headers, <<>>)
    IN IF ~resolved_body.ok THEN resolved_body
       ELSE IF ~header_map.ok THEN header_map
       ELSE Ok([method |-> to_ascii_uppercase(method), path |-> path, query |-> query,
                headers |-> header_map.value, body |-> resolved_body.value])

HeaderChars == {"A", "a", " ", ":", "="}

RECURSIVE CharSeqs(_, _)
CharSeqs(S, n) ==
    IF n = 0 THEN {<<>>}
    ELSE CharSeqs(S, n - 1) \cup {Append(q, c) : q \in CharSeqs(S, n - 1), c \in S}

\* --header arguments: the first of any shape, later ones from a fixed few
LaterHeaderArgs == {<<"A", ":", "a">>, <<"a", "=", "A">>, <<"a">>}

RECURSIVE HeaderArgLists(_)
HeaderArgLists(n) ==
    IF n = 0 THEN {<<>>}
    ELSE IF n = 1 THEN {<<>>} \cup {<<h>> : h \in CharSeqs(HeaderChars, MaxHeaderLen)}
    ELSE HeaderArgLists(n - 1)
         \cup {Append(q, h) : q \in {x \in HeaderArgLists(n - 1) : Len(x) = n - 1},
                              h \in LaterHeaderArgs}

MethodArgs == {<<"p", "o", "s", "t">>, <<"G", "e", "t">>}

BodyFiles ==
    {<<>>, Some([readable |-> FALSE, utf8 |-> TRUE, text |-> ""]),
     Some([readable |-> TRUE, utf8 |-> TRUE, text |-> "from file"]),
     Some([readable |-> TRUE, utf8 |-> FALSE, text |-> "bytes"])}

HttpInArgs ==
    /\ fn_in = NoValue
    /\ \E method \in MethodArgs, body \in {<<>>, Some("{\"hello\":\"world\"}")},
          body_file \in BodyFiles, headers \in HeaderArgLists(MaxHeaderArgs) :
          fn_in' = [kind |-> "http_in", method |-> method, path |-> "/webhook",
                    query |-> <<>>, body |-> body, body_file |-> body_file,
                    headers |-> headers]
    /\ UNCHANGED <<concVars, fn_out, fn_calls, gateVars, runVars, mockVars, hostVars,
                   listenVars>>

\* handle_listen with --http-in, after the gate: build the payload, write the file, return
ListenHttpIn ==
    /\ fn_in # NoValue
    /\ fn_in.kind = "http_in"
    /\ fn_out = NoValue
    /\ pc = "start"
    /\ LET payload == build_http_in_payload(fn_in.method, fn_in.path, fn_in.query,
                                            fn_in.body, fn_in.body_file, fn_in.headers)
       IN IF ~payload.ok
          THEN /\ Fail(payload.value)
               /\ fn_out' = [written |-> <<>>]
          ELSE \/ /\ Fail(CliError("HttpOutput", "failed to write http-in file"))
                  /\ fn_out' = [written |-> <<>>]
               \/ /\ Succeed
                  /\ fn_out' = [written |-> Some(payload.value)]
    /\ UNCHANGED <<concVars, guest_output, cmd, requirements, values, report, harness,
                   history, issued, invoke_base, ops, plan_value, encode_result,
                   send_result, output, logged, fn_in, fn_calls, mockVars, hostVars,
                   listenVars>>

NextHttpIn == HttpInArgs \/ ListenHttpIn

SpecHttpIn == InitIdle /\ [][NextHttpIn]_vars

HttpInDone == fn_in # NoValue /\ fn_in.kind = "http_in" /\ fn_out # NoValue

\* the text of a header argument left and right of its separator, without the blanks
\* around it
Stripped(s) ==
    LET idx == {i \in 1..Len(s) : s[i] # " "}
    IN IF idx = {} THEN <<>>
       ELSE SubSeq(s, CHOOSE i \in idx : \A j \in idx : i <= j,
                      CHOOSE i \in idx : \A j \in idx : i >= j)

Lowered(s) == [i \in 1..Len(s) |-> IF s[i] = "A" THEN "a" ELSE s[i]]

SeparatorAt(raw) ==
    LET colons == {i \in 1..Len(raw) : raw[i] = ":"}
        equals == {i \in 1..Len(raw) : raw[i] = "="}
        from == IF colons # {} THEN colons ELSE equals
    IN IF from = {} THEN 0 ELSE CHOOSE i \in from : \A j \in from : i <= j

WellFormed(raw) == SeparatorAt(raw) # 0 /\ SeparatorAt(raw) < Len(raw)

NameOf(raw) == Lowered(Stripped(SubSeq(raw, 1, SeparatorAt(raw) - 1)))

ValueOf(raw) == Stripped(SubSeq(raw, SeparatorAt(raw) + 1, Len(raw)))

lock_dropped_after_pop(t) == 0

\* the holder of the lock after the pop: the guard lives until the record is appended
lock_after_pop(t) == t

\* frame of the controller's steps
ConcFrame ==
    UNCHANGED <<once, runs, histories, fixture, gateVars, cmd, err, exit_code, harness, invoke_base, ops,
                plan_value, encode_result, send_result, output, logged, guest_output,
                http_handler, last_request, secrets, cap_log, listenVars, fn_in, fn_out>>

\* queue_response from any thread: lock, append, unlock
ConcQueueResponse ==
    /\ mock_lock = 0
    /\ Len(queued_log) < MaxQueued
    /\ \E res \in MockResponses :
          /\ queue' = queue_mock_response(queue, res)
          /\ queued_log' = Append(queued_log, res)
    /\ UNCHANGED <<threads, mock_lock, gone, served, expected, history, issued,
                   guest_results, fn_calls>>
    /\ ConcFrame

\* a guest on thread t issues a transport call and asks for the lock
ConcCall(t) ==
    /\ threads[t].pc = "idle"
    /\ Len(fn_calls) < MaxMockCalls
    /\ fn_calls' = Append(fn_calls, t)
    /\ threads' = [threads EXCEPT ![t] = [pc |-> "waiting", request |-> Len(fn_calls) + 1,
                                          response |-> NoValue]]
    /\ UNCHANGED <<mock_lock, mockVars, history, issued, guest_results>>
    /\ ConcFrame

\* lock(), then pop the head of the queue or take the default
ConcLockAndPop(t) ==
    /\ threads[t].pc = "waiting"
    /\ mock_lock = 0
    /\ mock_lock' = lock_after_pop(t)
    /\ threads' = [threads EXCEPT ![t].pc = "popped", ![t].response = mock_response(queue)]
    /\ queue' = mock_rest(queue)
    /\ served' = Append(served, mock_response(queue))
    /\ expected' = Append(expected,
                          IF gone < Len(queued_log) THEN queued_log[gone + 1]
                          ELSE default_http_handler)
    /\ gone' = IF gone < Len(queued_log) THEN gone + 1 ELSE gone
    /\ issued' = Append(issued, <<threads[t].request, mock_response(queue)>>)
    /\ UNCHANGED <<queued_log, history, guest_results, fn_calls>>
    /\ ConcFrame

\* append {request, response} to the history
ConcRecord(t) ==
    /\ threads[t].pc = "popped"
    /\ history' = [created |-> TRUE,
                   calls |-> Append(history.calls,
                                    [request |-> threads[t].request,
                                     response |-> threads[t].response])]
    /\ threads' = [threads EXCEPT ![t].pc = "recorded"]
    /\ UNCHANGED <<mock_lock, mockVars, issued, guest_results, fn_calls>>
    /\ ConcFrame

\* the guard is dropped and the response returned to the caller
ConcReturn(t) ==
    /\ threads[t].pc = "recorded"
    /\ mock_lock' = IF mock_lock = t THEN 0 ELSE mock_lock
    /\ guest_results' = Append(guest_results, <<threads[t].request, threads[t].response>>)
    /\ threads' = [threads EXCEPT ![t] = IdleThread]
    /\ UNCHANGED <<mockVars, history, issued, fn_calls>>
    /\ ConcFrame

NextMockConc ==
    \/ ConcQueueResponse
    \/ \E t \in Threads : ConcCall(t)
    \/ \E t \in Threads : ConcLockAndPop(t)
    \/ \E t \in Threads : ConcRecord(t)
    \/ \E t \in Threads : ConcReturn(t)

SpecMockConc == InitIdle /\ [][NextMockConc]_vars

CallInProgress == \E t \in Threads : threads[t].pc # "idle"

once_enter_unguarded(state) ==
    CASE state \in {"incomplete", "running"} -> "running"
      [] state = "complete"                  -> "returned"
      [] state = "poisoned"                  -> "panicked"

\* Once::call_once, where the caller goes: the first runs the closure, a caller that
\* finds it running blocks, after completion a caller returns at once, after a panic
\* of the closure every caller panics
once_enter(state) ==
    CASE state = "incomplete" -> "running"
      [] state = "running"    -> "blocked"
      [] state = "complete"   -> "returned"
      [] state = "poisoned"   -> "panicked"

\* what the closure meets: no script, a bash that cannot be spawned, a run that succeeds
\* or fails
ScriptOutcomes == {"absent", "spawn_failed", "success", "failure"}

OnceFrame ==
    UNCHANGED <<mock_lock, runs, histories, fixture, gateVars, runVars, mockVars, hostVars, listenVars, fnVars>>

\* ensure_components_built: BUILD_COMPONENTS_ONCE.call_once(..) is entered
OnceCall(t) ==
    /\ threads[t].pc \in {"idle", "returned"}
    /\ threads[t].request < MaxOnceCalls
    /\ threads' = [threads EXCEPT ![t].pc = once_enter(once.state),
                                  ![t].request = @ + 1]
    /\ once' = [once EXCEPT !.state = IF once_enter(@) = "running" THEN "running" ELSE @]
    /\ OnceFrame

\* the closure: return when the script is absent, else start bash on it
OnceStart(t) ==
    /\ threads[t].pc = "running"
    /\ \E outcome \in ScriptOutcomes :
          CASE outcome = "absent" ->
                  /\ once' = [once EXCEPT !.state = "complete"]
                  /\ threads' = [threads EXCEPT ![t].pc = "returned"]
            [] outcome = "spawn_failed" ->
                  /\ once' = [once EXCEPT !.state = "poisoned"]
                  /\ threads' = [threads EXCEPT ![t].pc = "panicked"]
            [] OTHER ->
                  /\ once' = [once EXCEPT !.starts = @ + 1]
                  /\ threads' = [threads EXCEPT ![t].pc = "script",
                                                ![t].response = [outcome |-> outcome]]
    /\ OnceFrame

\* the script exits: status() returns, then assert!(status.success())
OnceFinish(t) ==
    /\ threads[t].pc = "script"
    /\ IF threads[t].response.outcome = "success"
       THEN /\ once' = [once EXCEPT !.finished = @ + 1, !.state = "complete"]
            /\ threads' = [threads EXCEPT ![t].pc = "returned", ![t].response = NoValue]
       ELSE /\ once' = [once EXCEPT !.finished = @ + 1, !.state = "poisoned"]
            /\ threads' = [threads EXCEPT ![t].pc = "panicked", ![t].response = NoValue]
    /\ OnceFrame

\* a blocked caller is woken when the closure is over
OnceWake(t) ==
    /\ threads[t].pc = "blocked"
    /\ once.state \in {"complete", "poisoned"}
    /\ threads' = [threads EXCEPT ![t].pc = once_enter(once.state)]
    /\ UNCHANGED once
    /\ OnceFrame

NextOnce ==
    \/ \E t \in Threads : OnceCall(t)
    \/ \E t \in Threads : OnceStart(t)
    \/ \E t \in Threads : OnceFinish(t)
    \/ \E t \in Threads : OnceWake(t)

SpecOnce == InitIdle /\ [][NextOnce]_vars

MaxRuns == 3
MaxRunCalls == 2

\* a history kept in one place for the whole process
shared_history(hs) == 1

\* new_history(): a new, empty history object; its identity is the next free one
new_history(hs) == Len(hs) + 1

\* the histories after an allocation: a new empty one when the identity is new
allocated(hs, id) == IF id > Len(hs) THEN Append(hs, <<>>) ELSE hs

\* WasmHarness::new: a new harness object, or an error
harness_instance(rs) == Cardinality({i \in 1..Len(rs) : rs[i].harness # 0}) + 1

RunHandlers == {"handle_send", "handle_ingress", "ingest_http_request"}

IsoFrame ==
    UNCHANGED <<threads, mock_lock, once, fixture, gateVars, runVars, mockVars,
                hostVars, listenVars, fnVars>>

\* the head of a handler: WasmHarness::new(&provider)?, new_history(), and the
\* mock_responses argument of every invoke, which is None
RunStart ==
    /\ Len(runs) < MaxRuns
    /\ \E by \in RunHandlers, loaded \in BOOLEAN :
          IF ~loaded
          THEN /\ runs' = Append(runs, [by |-> by, state |-> "load_error", harness |-> 0,
                                        history |-> 0, at_start |-> <<>>,
                                        mock_responses |-> <<>>, http_calls |-> <<>>])
               /\ UNCHANGED histories
          ELSE LET id == new_history(histories)
               IN /\ histories' = allocated(histories, id)
                  /\ runs' = Append(runs, [by |-> by, state |-> "invoking",
                                           harness |-> harness_instance(runs),
                                           history |-> id,
                                           at_start |-> histories'[id],
                                           mock_responses |-> <<>>,
                                           http_calls |-> <<>>])
    /\ IsoFrame

\* the module of run i makes a transport call: the host records it in the history the
\* run passed to invoke
RunCall(i) ==
    /\ runs[i].state = "invoking"
    /\ Len(histories[runs[i].history]) < MaxRunCalls
    /\ histories' = [histories EXCEPT ![runs[i].history] =
                         Append(@, [run |-> i, request |-> "POST /messages"])]
    /\ UNCHANGED runs
    /\ IsoFrame

\* invoke returns and the handler reads its history (http_calls of the output)
RunEnd(i) ==
    /\ runs[i].state = "invoking"
    /\ runs' = [runs EXCEPT ![i].state = "returned",
                            ![i].http_calls = histories[runs[i].history]]
    /\ UNCHANGED histories
    /\ IsoFrame

NextIsolation ==
    \/ RunStart
    \/ \E i \in 1..Len(runs) : RunCall(i)
    \/ \E i \in 1..Len(runs) : RunEnd(i)

SpecIsolation == InitIdle /\ [][NextIsolation]_vars

Loaded(i) == runs[i].state # "load_error"

\* C33: every run and every listener request starts with an empty history and its own
\* harness and is given no response queue, so what it reads back are its own calls only.
C33_NoCrossRunState ==
    \A i \in 1..Len(runs) :
        Loaded(i) =>
            /\ runs[i].at_start = <<>>
            /\ runs[i].mock_responses = <<>>
            /\ \A k \in 1..Len(runs[i].http_calls) : runs[i].http_calls[k].run = i
            /\ \A k \in 1..Len(histories[runs[i].history]) :
                   histories[runs[i].history][k].run = i
            /\ \A j \in 1..Len(runs) :
                   (j # i /\ Loaded(j)) =>
                       /\ runs[j].harness # runs[i].harness
                       /\ runs[j].history # runs[i].history

\* a listener request that started while another one had already recorded calls, two
\* of them returned with one call each
C33_Witness ==
    /\ Len(runs) = 3
    /\ runs[1].by = "ingest_http_request"
    /\ runs[2].by = "ingest_http_request"
    /\ runs[1].state = "returned"
    /\ runs[2].state = "returned"
    /\ Len(runs[1].http_calls) = 2
    /\ Len(runs[2].http_calls) = 1
    /\ runs[3].state = "invoking"
    /\ histories[runs[3].history] = <<>>

(***************************************************************************)
(* SpecCommands: one run of any command that loads a component: the send,  *)
(* ingress and listen commands of Spec and the webhook command             *)
(* (handle_webhook, main.rs)                                               *)
(***************************************************************************)
\* bytes the webhook component returns from reconcile_webhook
ReconcileOutputs == {Garbage, [ok |-> TRUE], [ok |-> FALSE]}

\* handle_webhook up to harness.invoke("reconcile_webhook", ..): Values::load,
\* webhook_component_for, find_component_wasm_path, ComponentHarness::new,
\* new_history, build_webhook_input
HandleWebhook ==
    /\ pc = "start"
    /\ cmd = "none"
    /\ cmd' = "webhook"
    /\ \/ /\ Fail(CliError("ValuesLoad", "values load failed"))
          /\ UNCHANGED <<values, fixture, harness, history, ops, invoke_base>>
       \/ \E v \in PipelineVals :
             /\ values' = v
             /\ fixture' = v
             /\ \/ /\ Fail(CliError("WebhookUnsupported", "no webhook component"))
                   /\ UNCHANGED <<harness, history, ops, invoke_base>>
                \/ /\ Fail(CliError("Webhook", "component not found"))
                   /\ UNCHANGED <<harness, history, ops, invoke_base>>
                \/ /\ Fail(CliError("Webhook", "component load failed"))
                   /\ UNCHANGED <<harness, history, ops, invoke_base>>
                \/ /\ harness' = TRUE
                   /\ history' = [created |-> TRUE, calls |-> <<>>]
                   /\ \/ /\ Fail(CliError("Webhook", "public_base_url is required"))
                         /\ UNCHANGED <<ops, invoke_base>>
                      \/ /\ ops' = Append(ops, "reconcile_webhook")
                         /\ invoke_base' = Len(issued)
                         /\ pc' = "reconciling"
                         /\ UNCHANGED <<err, exit_code>>
    /\ UNCHANGED <<procVars, guest_output, requirements, report, issued, plan_value,
                   encode_result, send_result, output, logged, mockVars, hostVars,
                   listenVars, fnVars>>

\* handle_webhook: reconcile_webhook's invoke returns; decode, print
WebhookReturns ==
    /\ pc = "reconciling"
    /\ \/ \E e \in InvokeErrors :
             /\ Fail(map_invoke_error(e))
             /\ UNCHANGED <<output, guest_output>>
       \/ \E out \in ReconcileOutputs :
             IF out = Garbage
             THEN /\ Fail(decode_error("reconcile_webhook"))
                  /\ guest_output' = out
                  /\ UNCHANGED output
             ELSE /\ output' = [webhook |-> out]
                  /\ guest_output' = out
                  /\ Succeed
    /\ UNCHANGED <<concVars, cmd, requirements, values, report, harness, history, issued,
                   invoke_base, ops, plan_value, encode_result, send_result, logged,
                   mockVars, hostVars, listenVars, fnVars>>

NextCommands ==
    \/ Next
    \/ HandleWebhook
    \/ WebhookReturns

SpecCommands == InitIdle /\ [][NextCommands]_vars

\* the run loaded a requirement spec, validated the values it holds and found nothing
\* missing
ValidatedEmpty ==
    /\ requirements # EmptyRequirements
    /\ report = validate(requirements, values)
    /\ report = EmptyReport

\* a component was instantiated or an operation was invoked on one
ComponentUsed == harness \/ ops # <<>>

\* the gate of the send, ingress and listen commands
GateOnPipelineCommands == (cmd \in Commands /\ ComponentUsed) => ValidatedEmpty

\* C34: on every path (send, ingress, listen, webhook) a component is instantiated or
\* invoked only after validate ran on the loaded values and returned an empty report.
C34_GateOnEveryPath == ComponentUsed => ValidatedEmpty

(***************************************************************************)
(* SpecSigBytes: the signature check of handle_listener_request on the     *)
(* bytes of a request body (main.rs).  A body is a sequence of bytes; the  *)
(* digest is kept as the term HMAC(key, data), equal only for equal key    *)
(* and data.                                                               *)
(***************************************************************************)
MaxBodyLen == 2

\* bytes a body is drawn from: 'A', the two bytes of U+00E9, and 0xFF
BodyBytes == {65, 195, 169, 255}

BodiesUpTo(n) == UNION {[1..k -> BodyBytes] : k \in 0..n}

\* the three bytes of U+FFFD
REPLACEMENT == <<239, 191, 189>>

IsContinuation(b) == b >= 128 /\ b <= 191
IsLead2(b) == b >= 194 /\ b <= 223

\* String::from_utf8_lossy(bytes).as_bytes(), for ASCII, two-byte sequences and bytes
\* that start no sequence: each maximal invalid part becomes U+FFFD
RECURSIVE utf8_lossy_bytes(_)
utf8_lossy_bytes(bytes) ==
    IF bytes = <<>> THEN <<>>
    ELSE IF Head(bytes) < 128 THEN <<Head(bytes)>> \o utf8_lossy_bytes(Tail(bytes))
    ELSE IF IsLead2(Head(bytes)) /\ Len(bytes) >= 2 /\ IsContinuation(bytes[2])
    THEN <<bytes[1], bytes[2]>> \o utf8_lossy_bytes(Tail(Tail(bytes)))
    ELSE REPLACEMENT \o utf8_lossy_bytes(Tail(bytes))

\* Hmac<Sha256> keyed with the secret, updated with the data
HmacSha256(key, data) == [key |-> key, data |-> data]

\* mac.verify_slice(&sig_bytes).is_ok()
verify_slice(mac, sig_bytes) == sig_bytes = mac

\* handle_listener_request from to_bytes to the signature guard, for provider webex with
\* a secret configured and a header whose SHA-256 segment decodes to sig_bytes
listener_signature_check(secret, sig_bytes, body_bytes) ==
    LET body_text == utf8_lossy_bytes(body_bytes)
        mac == HmacSha256(secret, body_text)
    IN [body_text |-> body_text, mac_input |-> mac.data,
        status |-> IF ~verify_slice(mac, sig_bytes) THEN 401 ELSE 0]

\* a request whose sender signed `signed` with `key`, received with body `body`
SigBytesInput ==
    /\ fn_in = NoValue
    /\ \E secret \in SigSecrets, key \in SigSecrets :
       \E body \in BodiesUpTo(MaxBodyLen), signed \in BodiesUpTo(MaxBodyLen) :
          /\ (key # secret) => (signed = body)
          /\ fn_in' = [kind |-> "signature", secret |-> secret, key |-> key,
                       signed |-> signed, body |-> body]
    /\ UNCHANGED <<concVars, fn_out, fn_calls, gateVars, runVars, mockVars, hostVars,
                   listenVars>>

SigBytesHandle ==
    /\ fn_in # NoValue
    /\ fn_out = NoValue
    /\ fn_out' = listener_signature_check(fn_in.secret,
                                          HmacSha256(fn_in.key, fn_in.signed), fn_in.body)
    /\ UNCHANGED <<concVars, fn_in, fn_calls, gateVars, runVars, mockVars, hostVars,
                   listenVars>>

NextSigBytes == SigBytesInput \/ SigBytesHandle

SpecSigBytes == InitIdle /\ [][NextSigBytes]_vars

SigBytesDone == fn_in # NoValue /\ fn_out # NoValue

\* the header carries the HMAC of exactly the received bytes under the configured secret
SignedAsReceived == fn_in.key = fn_in.secret /\ fn_in.signed = fn_in.body

\* the received bytes are valid UTF-8
ValidUtf8(bytes) == utf8_lossy_bytes(bytes) = bytes

\* for a body that is valid UTF-8 the check is over the received bytes: the signature of
\* these bytes is accepted and no other one is
SignatureOverValidUtf8 ==
    (SigBytesDone /\ ValidUtf8(fn_in.body)) =>
        /\ fn_out.mac_input = fn_in.body
        /\ (fn_out.status # 401) = SignedAsReceived

\* C35: the signature is verified over the literal bytes of the body: for every body,
\* valid UTF-8 or not, the HMAC is fed the received bytes unchanged and a header with
\* the HMAC-SHA256 of exactly these bytes is accepted.
C35_SignatureOverLiteralBytes ==
    SigBytesDone =>
        /\ fn_out.mac_input = fn_in.body
        /\ SignedAsReceived => fn_out.status # 401

(***************************************************************************)
(* The loaded Values during a command run (SpecCommands)                   *)
(***************************************************************************)
\* the --public-base-url argument of the runs drawn
PublicBaseUrlArg == "https://example.test"

\* the loaded config with the public_base_url entry set to the argument
ConfigWithUrl(config) ==
    [k \in DOMAIN config \cup {"public_base_url"} |->
        IF k = "public_base_url" THEN PublicBaseUrlArg ELSE config[k]]

MaxBumps == 4

\* 2^16: a u64 is four limbs below this base
LimbBase == 65536

U64Zero == <<0, 0, 0, 0>>
U64Max == <<LimbBase - 1, LimbBase - 1, LimbBase - 1, LimbBase - 1>>

\* a number below 2^16 as a u64
U64Of(n) == <<0, 0, 0, n>>

Front(x) == SubSeq(x, 1, Len(x) - 1)

\* x + 1 modulo 2^64: add one to the last limb, carry while a limb is full
RECURSIVE wrapping_add_one(_)
wrapping_add_one(x) ==
    IF x = <<>> THEN <<>>
    ELSE IF x[Len(x)] < LimbBase - 1 THEN Front(x) \o <<x[Len(x)] + 1>>
    ELSE wrapping_add_one(Front(x)) \o <<0>>

\* u64::saturating_add(self, 1)
saturating_add_one(x) == IF x = U64Max THEN U64Max ELSE wrapping_add_one(x)

\* x < y on u64
RECURSIVE U64Less(_, _)
U64Less(x, y) ==
    /\ x # <<>>
    /\ \/ Head(x) < Head(y)
       \/ Head(x) = Head(y) /\ U64Less(Tail(x), Tail(y))

\* ConversationState::new(ctx)
ConversationState_new(ctx) == [ctx |-> ctx, next_watermark |-> U64Zero, activities |-> <<>>]

\* ConversationState::bump_watermark: the value returned and the state after
bump_watermark(state) ==
    [watermark |-> state.next_watermark,
     state |-> [state EXCEPT !.next_watermark = saturating_add_one(state.next_watermark)]]

DirectLineContexts == [env : {"dev", "prod"}, tenant : {"t1", "t2"}, team : {<<>>, <<"a">>}]

\* next_watermark of a state read back from the store: at a limb boundary and at the top
\* of the range
StoredWatermarks ==
    {<<0, 0, 0, LimbBase - 1>>, <<0, 0, LimbBase - 1, LimbBase - 1>>,
     <<LimbBase - 1, LimbBase - 1, LimbBase - 1, LimbBase - 3>>,
     <<LimbBase - 1, LimbBase - 1, LimbBase - 1, LimbBase - 2>>, U64Max}

\* a new conversation
WatermarkNew ==
    /\ fn_in = NoValue
    /\ \E ctx \in DirectLineContexts :
          /\ fn_in' = [kind |-> "watermark", new |-> TRUE, start |-> U64Zero]
          /\ fn_out' = [state |-> ConversationState_new(ctx), returned |-> <<>>]
    /\ UNCHANGED <<concVars, fn_calls, gateVars, runVars, mockVars, hostVars, listenVars>>

\* a conversation deserialized from the store
WatermarkStored ==
    /\ fn_in = NoValue
    /\ \E ctx \in DirectLineContexts, w \in StoredWatermarks :
          /\ fn_in' = [kind |-> "watermark", new |-> FALSE, start |-> w]
          /\ fn_out' = [state |-> [ctx |-> ctx, next_watermark |-> w, activities |-> <<>>],
                        returned |-> <<>>]
    /\ UNCHANGED <<concVars, fn_calls, gateVars, runVars, mockVars, hostVars, listenVars>>

\* state.bump_watermark()
WatermarkBump ==
    /\ fn_in # NoValue
    /\ fn_in.kind = "watermark"
    /\ Len(fn_out.returned) < MaxBumps
    /\ LET r == bump_watermark(fn_out.state)
       IN fn_out' = [state |-> r.state, returned |-> Append(fn_out.returned, r.watermark)]
    /\ UNCHANGED <<concVars, fn_in, fn_calls, gateVars, runVars, mockVars, hostVars,
                   listenVars>>

NextWatermark == WatermarkNew \/ WatermarkStored \/ WatermarkBump

SpecWatermark == InitIdle /\ [][NextWatermark]_vars

\* C37: a new state has next_watermark 0; each bump returns the current next_watermark
\* and raises it by one, so k bumps on a new state return 0, 1, .., k-1, each larger
\* than the one before, and leave next_watermark at k; at the u64 maximum the counter
\* stays at the maximum and never wraps to a smaller value.
C37_Watermarks ==
    (fn_in # NoValue /\ fn_in.kind = "watermark") =>
        LET returned == fn_out.returned
            next == fn_out.state.next_watermark
            k == Len(returned)
        IN /\ k = 0 => next = fn_in.start
           /\ fn_in.new =>
                 /\ fn_in.start = <<0, 0, 0, 0>>
                 /\ \A i \in 1..k : returned[i] = U64Of(i - 1)
                 /\ next = U64Of(k)
           /\ k > 0 => returned[1] = fn_in.start
           /\ \A i \in 1..k :
                 LET after == IF i < k THEN returned[i + 1] ELSE next
                 IN IF returned[i] = U64Max THEN after = U64Max
                    ELSE /\ U64Less(returned[i], after)
                         /\ ~\E j \in 1..k : j # i /\ returned[j] = returned[i]

\* four bumps on a new state
C37_Witness ==
    /\ fn_in # NoValue
    /\ fn_in.kind = "watermark"
    /\ fn_in.new
    /\ fn_out.returned = <<<<0, 0, 0, 0>>, <<0, 0, 0, 1>>, <<0, 0, 0, 2>>, <<0, 0, 0, 3>>>>
    /\ fn_out.state.next_watermark = <<0, 0, 0, 4>>

\* a stored state one below the maximum, bumped three times
WatermarkSaturated ==
    /\ fn_in # NoValue
    /\ fn_in.kind = "watermark"
    /\ Len(fn_out.returned) = 3
    /\ fn_out.returned[1] # U64Max
    /\ fn_out.returned[2] = U64Max
    /\ fn_out.returned[3] = U64Max
    /\ fn_out.state.next_watermark = U64Max

(***************************************************************************)
(* SpecJwt: issue_token and verify_token                                   *)
(* (messaging-provider-webchat/src/directline/jwt.rs).  A secret is a      *)
(* sequence of bytes.  A JSON text is the sequence of its members, each    *)
(* value in its written form; a base64url text has no '.', a token is the  *)
(* sequence of the pieces between its dots.  The clock is read once by     *)
(* issue_token and once by verify_token.                                   *)
(***************************************************************************)
TTL_SECONDS == 1800
ISS == "greentic.webchat"
AUD == "directline"

\* the block size of SHA-256 in bytes
BLOCK_SIZE == 64

\* the latest clock reading drawn
MaxClock == 2000

Member(k, v, quoted) == [k |-> k, v |-> v, quoted |-> quoted]

\* serde_json::to_string(&json!({"alg":"HS256","typ":"JWT"}))
header_json == <<Member("alg", "HS256", TRUE), Member("typ", "JWT", TRUE)>>

\* serde_json::to_string(&claims): team None is written null, conv None is skipped
claims_json(claims) ==
    <<Member("iss", claims.iss, TRUE), Member("aud", claims.aud, TRUE),
      Member("sub", claims.sub, TRUE), Member("iat", ToString(claims.iat), FALSE),
      Member("nbf", ToString(claims.nbf), FALSE),
      Member("exp", ToString(claims.exp), FALSE),
      Member("ctx/env", claims.ctx.env, TRUE),
      Member("ctx/tenant", claims.ctx.tenant, TRUE),
      IF claims.ctx.team = <<>> THEN Member("ctx/team", "null", FALSE)
      ELSE Member("ctx/team", claims.ctx.team[1], TRUE)>>
    \o (IF claims.conv = <<>> THEN <<>> ELSE <<Member("conv", claims.conv[1], TRUE)>>)

json_get(json, k) ==
    LET hits == {i \in 1..Len(json) : json[i].k = k}
    IN IF hits = {} THEN <<>> ELSE Some(json[CHOOSE i \in hits : TRUE])

\* the i64 a JSON number is read as
json_i64(m) == CHOOSE n \in 0..(MaxClock + TTL_SECONDS) : ToString(n) = m.v

\* an Option<String> member: absent or null is None
json_opt_string(m) == IF m = <<>> \/ ~m[1].quoted THEN <<>> ELSE Some(m[1].v)

\* serde_json::from_slice::<TokenClaims>: every field but conv must be there
claims_from_json(json) ==
    IF \E k \in {"iss", "aud", "sub", "iat", "nbf", "exp", "ctx/env", "ctx/tenant"} :
           json_get(json, k) = <<>>
    THEN Err("Json")
    ELSE Ok([iss |-> json_get(json, "iss")[1].v, aud |-> json_get(json, "aud")[1].v,
             sub |-> json_get(json, "sub")[1].v,
             iat |-> json_i64(json_get(json, "iat")[1]),
             nbf |-> json_i64(json_get(json, "nbf")[1]),
             exp |-> json_i64(json_get(json, "exp")[1]),
             ctx |-> [env |-> json_get(json, "ctx/env")[1].v,
                      tenant |-> json_get(json, "ctx/tenant")[1].v,
                      team |-> json_opt_string(json_get(json, "ctx/team"))],
             conv |-> json_opt_string(json_get(json, "conv"))])

\* the number of '.' in a string
Dots(str) == Cardinality({i \in 1..Len(str) : SubSeq(str, i, i) = "."})

RECURSIVE JsonDots(_)
JsonDots(json) ==
    IF json = <<>> THEN 0 ELSE Dots(Head(json).v) + JsonDots(Tail(json))

\* a segment written as its JSON text
encode_segment_plain(json) == [coding |-> "plain", data |-> json]

\* URL_SAFE_NO_PAD.encode(bytes): a text over A-Z a-z 0-9 - _
url_safe_no_pad_encode(bytes) == [coding |-> "base64url", data |-> bytes]

\* URL_SAFE_NO_PAD.decode(text)
url_safe_no_pad_decode(text) ==
    IF text.coding = "base64url" THEN Ok(text.data) ELSE Err("Base64")

\* fn encode_segment
encode_segment(json) == url_safe_no_pad_encode(json)

\* str::split('.') of one segment's text: a base64url text has no '.'
split_segment(text) ==
    IF text.coding = "base64url" THEN <<text>>
    ELSE [i \in 1..(JsonDots(text.data) + 1) |-> [coding |-> "piece", data |-> i]]

\* format!("{header_enc}.{payload_enc}.{signature_enc}"), as token.split('.') sees it
format_token(header_enc, payload_enc, signature_enc) ==
    split_segment(header_enc) \o split_segment(payload_enc) \o split_segment(signature_enc)

\* HmacSha256::new_from_slice(secret): a key of up to one block is padded with zero
\* bytes to the block size, a longer one is hashed first
hmac_key(secret) ==
    IF Len(secret) > BLOCK_SIZE THEN [hashed |-> secret]
    ELSE [i \in 1..BLOCK_SIZE |-> IF i <= Len(secret) THEN secret[i] ELSE 0]

\* mac.update(header); mac.update(b"."); mac.update(payload); mac.finalize()
jwt_mac(secret, header, payload) ==
    [key |-> hmac_key(secret), data |-> <<header, ".", payload>>]

\* fn issue_token, with the reading of Utc::now() as an argument
issue_token(secret, ctx, sub, conv, now) ==
    LET iat == now
        exp == now + TTL_SECONDS
        claims == [iss |-> ISS, aud |-> AUD, sub |-> sub, iat |-> iat, nbf |-> iat,
                   exp |-> exp, ctx |-> ctx, conv |-> conv]
        header_enc == encode_segment(header_json)
        payload_enc == encode_segment(claims_json(claims))
        signature_enc == url_safe_no_pad_encode(jwt_mac(secret, header_enc, payload_enc))
    IN [token |-> format_token(header_enc, payload_enc, signature_enc), exp |-> exp]

\* fn decode_segment::<TokenClaims>
decode_segment(text) ==
    LET bytes == url_safe_no_pad_decode(text)
    IN IF ~bytes.ok THEN bytes ELSE claims_from_json(bytes.value)

\* fn verify_token, with the reading of Utc::now() as an argument
verify_token(secret, token, now) ==
    IF Len(token) # 3 THEN Err("InvalidFormat")
    ELSE LET header == token[1]
             payload == token[2]
             signature == token[3]
             expected_mac == jwt_mac(secret, header, payload)
             decoded_sig == url_safe_no_pad_decode(signature)
         IN IF ~decoded_sig.ok THEN decoded_sig
            ELSE IF expected_mac # decoded_sig.value THEN Err("InvalidSignature")
            ELSE LET claims == decode_segment(payload)
                 IN IF ~claims.ok THEN claims
                    ELSE IF now < claims.value.nbf THEN Err("NotYetValid")
                    ELSE IF now >= claims.value.exp THEN Err("Expired")
                    ELSE claims

\* secrets: "k", "k" followed by a zero byte, "x", and the empty one
JwtSecrets == {<<107>>, <<107, 0>>, <<120>>, <<>>}

JwtContexts == [env : {"default", "prod"}, tenant : {"tenant-a"}, team : {<<>>, <<"team.a">>}]
JwtSubs == {"user-123", "a.b"}
JwtConvs == {<<>>, <<"conv-99">>, <<"">>}
IssueTimes == {1, 100}

\* clock readings at verification: a clock set back, the issue time, the last second
\* before exp, exp, and later
VerifyTimes(iat) == {iat - 1, iat, iat + TTL_SECONDS - 1, iat + TTL_SECONDS,
                     iat + TTL_SECONDS + 1}

JwtInput ==
    /\ fn_in = NoValue
    /\ \E secret \in JwtSecrets, other \in JwtSecrets, ctx \in JwtContexts,
          sub \in JwtSubs, conv \in JwtConvs, iat \in IssueTimes :
          \E now \in VerifyTimes(iat) :
             fn_in' = [kind |-> "jwt", secret |-> secret, verify_secret |-> other,
                       ctx |-> ctx, sub |-> sub, conv |-> conv, issued_at |-> iat,
                       verified_at |-> now]
    /\ UNCHANGED <<concVars, fn_out, fn_calls, gateVars, runVars, mockVars, hostVars,
                   listenVars>>

\* issue_token, then verify_token on the token it returned
JwtRoundTrip ==
    /\ fn_in # NoValue
    /\ fn_out = NoValue
    /\ LET tok == issue_token(fn_in.secret, fn_in.ctx, fn_in.sub, fn_in.conv,
                              fn_in.issued_at)
       IN fn_out' = [token |-> tok.token, exp |-> tok.exp,
                     result |-> verify_token(fn_in.verify_secret, tok.token,
                                             fn_in.verified_at)]
    /\ UNCHANGED <<concVars, fn_in, fn_calls, gateVars, runVars, mockVars, hostVars,
                   listenVars>>

NextJwt == JwtInput \/ JwtRoundTrip

SpecJwt == InitIdle /\ [][NextJwt]_vars

JwtDone == fn_in # NoValue /\ fn_in.kind = "jwt" /\ fn_out # NoValue

\* verification is read off the clock from the issue time up to, not including, exp
BeforeExpiry ==
    fn_in.verified_at >= fn_in.issued_at /\ fn_in.verified_at < fn_in.issued_at + 1800

\* the claims returned are those issued
SameClaims ==
    /\ fn_out.result.ok
    /\ fn_out.result.value.sub = fn_in.sub
    /\ fn_out.result.value.ctx = fn_in.ctx
    /\ fn_out.result.value.conv = fn_in.conv

\* the two secrets without their trailing zero bytes
RECURSIVE StripZeros(_)
StripZeros(secret) ==
    IF secret # <<>> /\ secret[Len(secret)] = 0
    THEN StripZeros(SubSeq(secret, 1, Len(secret) - 1)) ELSE secret

SameKey == StripZeros(fn_in.secret) = StripZeros(fn_in.verify_secret)

\* C38, as stated: the token has three segments and exp is issue time + 1800; with the
\* same secret verification before exp returns the issued sub, ctx and conv and at or
\* after exp fails with Expired; with a different secret it fails with InvalidSignature.
C38_TokenRoundTrip ==
    JwtDone =>
        /\ Len(fn_out.token) = 3
        /\ fn_out.exp = fn_in.issued_at + 1800
        /\ (fn_in.verify_secret = fn_in.secret /\ BeforeExpiry) => SameClaims
        /\ (fn_in.verify_secret = fn_in.secret /\ fn_in.verified_at >= fn_out.exp)
              => fn_out.result = [ok |-> FALSE, value |-> "Expired"]
        /\ fn_in.verify_secret # fn_in.secret
              => fn_out.result = [ok |-> FALSE, value |-> "InvalidSignature"]

\* C38: the same with "a different secret" read as a different HMAC key: two secrets of
\* up to 64 bytes that differ only in trailing zero bytes are the same key, and
\* verification under either behaves alike; and with a clock reading before the issue
\* time verification fails with NotYetValid.
C38_TokenRoundTripByKey ==
    JwtDone =>
        /\ Len(fn_out.token) = 3
        /\ fn_out.exp = fn_in.issued_at + 1800
        /\ (SameKey /\ BeforeExpiry) => SameClaims
        /\ (SameKey /\ fn_in.verified_at >= fn_out.exp)
              => fn_out.result = [ok |-> FALSE, value |-> "Expired"]
        /\ (SameKey /\ fn_in.verified_at < fn_in.issued_at)
              => fn_out.result = [ok |-> FALSE, value |-> "NotYetValid"]
        /\ ~SameKey => fn_out.result = [ok |-> FALSE, value |-> "InvalidSignature"]

\* a token with a conversation id and a dotted subject verified in the last second
\* before exp with the secret that signed it
C38_Witness ==
    /\ JwtDone
    /\ fn_in.secret = <<107>>
    /\ fn_in.verify_secret = <<107>>
    /\ fn_in.sub = "a.b"
    /\ fn_in.conv = <<"conv-99">>
    /\ fn_in.ctx.team = <<>>
    /\ fn_in.verified_at = fn_out.exp - 1
    /\ SameClaims

(***************************************************************************)
(* The Send Results of send_payload (SpecWebex)                            *)
(***************************************************************************)
\* the Send Result the last send_payload returned
SendResultReturned ==
    IF fn_in.kind = "send" THEN fn_out.send ELSE fn_out.invoke

SendReturned ==
    \/ SendDone
    \/ TypedSendDone

\* the one transport call of the run was answered with this status
AnsweredWith(lo, hi) ==
    /\ Len(fn_calls) = 1
    /\ fn_calls[1].response.kind = "response"
    /\ fn_calls[1].response.status >= lo
    /\ fn_calls[1].response.status <= hi

\* C39: a Send Result with ok true has retryable false and no message, one with ok false
\* has a message; retryable is true only after a transport call that returned an error
\* or a status of 500 or above, never after a failed input check or a 4xx status.
C39_SendResultShape ==
    SendReturned =>
        LET r == SendResultReturned
        IN /\ r.ok => (~r.retryable /\ r.message = <<>>)
           /\ ~r.ok => (Len(r.message) = 1 /\ r.message[1] # "")
           /\ r.retryable =>
                 /\ Len(fn_calls) = 1
                 /\ \/ fn_calls[1].response.kind = "error"
                    \/ fn_calls[1].response.status >= 500
           /\ fn_calls = <<>> => (~r.ok /\ ~r.retryable)
           /\ (fn_in.kind = "send" /\ PreCheckFails) => (fn_calls = <<>> /\ ~r.retryable)
           /\ AnsweredWith(400, 499) => (~r.ok /\ ~r.retryable)
           /\ AnsweredWith(200, 299) => r.ok

\* a send answered 500: ok false, a message, retryable
C39_Witness ==
    /\ SendDone
    /\ AnsweredWith(500, 500)
    /\ ~fn_out.send.ok
    /\ fn_out.send.retryable
    /\ fn_out.send.message = <<"webex returned status 500">>

\* a send answered 404: ok false and not retryable
SendAnswered404 ==
    /\ SendDone
    /\ AnsweredWith(404, 404)
    /\ ~fn_out.send.retryable

(***************************************************************************)
(* SpecRoute: which requests reach handle_listener_request and what it     *)
(* hands to the worker (run_listener, handle_listener_request, main.rs)    *)
(***************************************************************************)
\* a router with one route: the configured path, POST only
route_exact(expected_path, method, path) ==
    path = expected_path /\ method = <<"P", "O", "S", "T">>

\* Router::new().fallback(handle_listener_request): no route is registered, so the
\* fallback handler gets every request
route_fallback(expected_path, method, path) == TRUE

\* run_listener's router and handle_listener_request up to spawn_blocking: the logged
\* detail, the 401 of the signature guard, or the HttpInFile given to the worker
listener_route(state, req) ==
    IF ~route_fallback(state.expected_path, req.method, req.path)
    THEN [status |-> 404, dispatched |-> FALSE, detail |-> NoValue, http_in |-> NoValue]
    ELSE LET detail == [method |-> req.method, path |-> req.path,
                        expected_path |-> state.expected_path]
         IN IF signature_rejects(state, req)
            THEN [status |-> 401, dispatched |-> FALSE, detail |-> detail,
                  http_in |-> NoValue]
            ELSE [status |-> 0, dispatched |-> TRUE, detail |-> detail,
                  http_in |-> [method |-> to_ascii_uppercase(req.method),
                               path |-> req.path, headers |-> req.headers,
                               body |-> Some(req.body)]]

RoutePaths == {"/webhook", "/other", "/"}
RouteMethods == {<<"P", "O", "S", "T">>, <<"G", "E", "T">>}

RouteInput ==
    /\ fn_in = NoValue
    /\ \E provider \in ListenProviders, secret \in {<<>>, Some(<<"s", "1">>)},
          expected_path \in {"/webhook", "/"} :
       \E method \in RouteMethods, path \in RoutePaths, headers \in ListenerHeaders,
          body \in SigBodies :
          fn_in' = [kind |-> "route",
                    state |-> [expected_path |-> expected_path, provider |-> provider,
                               signature_secret |-> secret],
                    req |-> [method |-> method, path |-> path, headers |-> headers,
                             body |-> body]]
    /\ UNCHANGED <<concVars, fn_out, fn_calls, gateVars, runVars, mockVars, hostVars,
                   listenVars>>

\* one request arrives at the listener
RouteRequest ==
    /\ fn_in # NoValue
    /\ fn_out = NoValue
    /\ fn_out' = listener_route(fn_in.state, fn_in.req)
    /\ UNCHANGED <<concVars, fn_in, fn_calls, gateVars, runVars, mockVars, hostVars,
                   listenVars>>

NextRoute == RouteInput \/ RouteRequest

SpecRoute == InitIdle /\ [][NextRoute]_vars

RouteDone == fn_in # NoValue /\ fn_in.kind = "route" /\ fn_out # NoValue

\* the same request sent to the configured path, and to it with POST
AtExpectedPath == [fn_in.req EXCEPT !.path = fn_in.state.expected_path]
AtExpectedPathPost == [AtExpectedPath EXCEPT !.method = <<"P", "O", "S", "T">>]

\* C40: every request reaches the handler whatever its path and method; the configured
\* path is only logged; a request is answered 401 or dispatched to ingest_http exactly as
\* the same request to the configured path is, and the worker gets the request's own
\* path and method.
C40_PathNotCompared ==
    RouteDone =>
        /\ fn_out.status \in {0, 401}
        /\ fn_out.detail.expected_path = fn_in.state.expected_path
        /\ fn_out.detail.path = fn_in.req.path
        /\ (fn_in.state.signature_secret = <<>> \/ fn_in.state.provider # "webex")
              => fn_out.dispatched
        /\ fn_out.dispatched =>
              /\ fn_out.http_in.path = fn_in.req.path
              /\ fn_out.http_in.headers = fn_in.req.headers
              /\ fn_out.http_in.body = <<fn_in.req.body>>
        /\ LET same == listener_route(fn_in.state, AtExpectedPath)
               post == listener_route(fn_in.state, AtExpectedPathPost)
           IN /\ same.status = fn_out.status
              /\ same.dispatched = fn_out.dispatched
              /\ post.status = fn_out.status
              /\ post.dispatched = fn_out.dispatched
              /\ fn_out.dispatched =>
                    fn_out.http_in = [same.http_in EXCEPT !.path = fn_in.req.path]

\* a GET to /other on a listener configured for /webhook, dispatched
C40_Witness ==
    /\ RouteDone
    /\ fn_in.state.expected_path = "/webhook"
    /\ fn_in.req.path = "/other"
    /\ fn_in.req.method = <<"G", "E", "T">>
    /\ fn_in.state.provider = "webex"
    /\ fn_in.state.signature_secret # <<>>
    /\ fn_out.dispatched
    /\ fn_out.http_in.path = "/other"

====
